---- MODULE Spec2Model ----
(***************************************************************************)
(* Singleton and mixin demonstrations of the repository, as state machines. *)
(*                                                                         *)
(*   Spec           threads calling the accessors of                       *)
(*                  decorator_thread_safety_issue.py (unsafe_singleton,      *)
(*                  safe_singleton, ThreadSafeSingletonMeta)                  *)
(*   SpecSingleton  the single-threaded singletons (01, 02, 03,            *)
(*                  metaclass_example.py, 04_decorator_subclassing_pitfall) *)
(*   SpecPizza      attribute_modifying_mixin_example.py                    *)
(*   SpecMixinInit  mixin_constructor_pitfall_example.py                    *)
(*   SpecConverter  mixin_static_examples.py                                *)
(*   SpecFair       the lock-guarded accessors under a fair scheduler       *)
(*   SpecNested     ThreadSafeSingletonMeta with a constructor that calls   *)
(*                  another class of the metaclass                          *)
(***************************************************************************)
EXTENDS Integers, Sequences, FiniteSets, TLC

\* ---------------------------------------------------------------- bounds
NThreads == 3
MaxCalls == 3
MaxFailures == 1

Threads == 1..NThreads

\* The demonstrations of decorator_thread_safety_issue.py: which accessor the
\* worker threads call.
Demos == {"unsafe", "safe", "meta"}

\* The class wrapped by the decorators, and the classes that use the metaclass.
DecoratedClass == "Database"
MetaClasses == {"Database", "Cache"}

VARIABLES
    demo,           \* which demonstration runs
    pc,             \* pc[t]: where thread t is inside the accessor
    cls,            \* cls[t]: the class thread t's current call is about
    obj,            \* obj[t]: the object cls(*args) returned to t, not yet stored
    instances,      \* the decorator's closure dict: class -> instance
    lock,           \* the decorator's closure lock: TRUE when held
    metaInstances,  \* ThreadSafeSingletonMeta._instances
    metaLock,       \* ThreadSafeSingletonMeta._lock: TRUE when held
    nextId,         \* identity of the next object to be allocated
    nCalls,         \* nCalls[t]: calls thread t has finished
    returned,       \* returned[t]: what t's calls returned, in order: [cls, inst]
    raised,         \* raised[t]: calls of t that ended in an exception
    constructed,    \* constructed[c]: constructor runs of c that completed
    failures,       \* constructor runs that raised
    hist            \* hist[t]: what t's current call has observed so far

VARIABLES
    script,         \* which of the single-threaded scripts runs
    newInstance,    \* 01_new_pitfall: ConfigManager._instance (0 is None)
    decoInstances,  \* 02_decorator_example: the closure dict of singleton(cls)
    smInstances,    \* metaclass_example: SingletonMeta._instances
    heap,           \* heap[r]: the object with identity r
    refs,           \* refs[a]: what the calls of accessor a returned, in order
    initCount,      \* initCount[a]: runs of __init__ behind accessor a
    allocCount,     \* allocCount[a]: objects allocated behind accessor a
    loadCount,      \* loadCount[a]: runs of _load_config behind accessor a
    written,        \* written[a]: the last store under "test" through a result of
                    \* a: its value, the call whose result it went through, and
                    \* the calls made by then
    ns,             \* ns[s]: the names bound in demonstration scope s
    tried,          \* tried[s]: the class statement of FileLogger has run in s
    typeErrors      \* typeErrors[s]: TypeErrors raised by class statements in s

VARIABLES
    pizzas,         \* pizzas[p]: the pizza objects, [kind, toppings]
    log,            \* log[p]: the methods called on p, in call order
    attrErrors,     \* AttributeErrors raised by calls of a missing method
    pizzaOps        \* method calls made so far

VARIABLES
    created         \* the objects constructed so far, in construction order

VARIABLES
    doc,            \* the document the instance methods are called on
    last            \* the last call of a converter function and its outcome

VARIABLES
    logInstances,   \* logInstances[s]: the dict of scope s (the closure dict of
                    \* singleton, SingletonMeta._instances): class -> instance
    logHeap,        \* logHeap[r]: the logger object with identity r
    logCalls        \* the calls of the loggers so far, with their outcomes

VARIABLES
    outer           \* outer[t]: the class whose constructor, run by thread t,
                    \* is waiting for a call it made ("": none)

singletonVars == <<script, newInstance, decoInstances, smInstances, heap, refs,
                   initCount, allocCount, loadCount, written, ns, tried,
                   typeErrors>>

pizzaVars == <<pizzas, log, attrErrors, pizzaOps>>

threadVars == <<demo, pc, cls, obj, instances, lock, metaInstances, metaLock,
                nextId, nCalls, returned, raised, constructed, failures, hist>>

mixinInitVars == <<created>>

converterVars == <<doc, last>>

loggerVars == <<logInstances, logHeap, logCalls>>

nestedVars == <<outer>>

vars == <<threadVars, singletonVars, pizzaVars, mixinInitVars, converterVars,
          loggerVars, nestedVars>>

\* {} of the source: a dict with no key
EmptyDict == [k \in {} |-> 0]

\* A class whose constructor calls another class of the metaclass.
NestingClasses == {"Service"}

AllClasses == MetaClasses \cup {DecoratedClass} \cup NestingClasses

NewHist(published) ==
    [startPub |-> published, outerMiss |-> FALSE, tookLock |-> FALSE,
     acqPub |-> FALSE, built |-> FALSE]

ThreadInit ==
    /\ pc = [t \in Threads |-> "idle"]
    /\ cls = [t \in Threads |-> DecoratedClass]
    /\ obj = [t \in Threads |-> 0]
    /\ instances = EmptyDict
    /\ lock = FALSE
    /\ metaInstances = EmptyDict
    /\ metaLock = FALSE
    /\ nextId = 1
    /\ nCalls = [t \in Threads |-> 0]
    /\ returned = [t \in Threads |-> <<>>]
    /\ raised = [t \in Threads |-> 0]
    /\ constructed = [c \in AllClasses |-> 0]
    /\ failures = 0
    /\ hist = [t \in Threads |-> NewHist(FALSE)]

\* dict[key] = value
Put(dict, key, value) ==
    [k \in DOMAIN dict \cup {key} |-> IF k = key THEN value ELSE dict[k]]

\* The outcome of an expression: a value, or the exception it raised.
Returns(value) == [raised |-> "", value |-> value]

Raises(exception) == [raised |-> exception, value |-> "none"]

\* What every step of a worker thread leaves alone.
OtherThanThreads ==
    UNCHANGED <<singletonVars, pizzaVars, mixinInitVars, converterVars,
                loggerVars, nestedVars>>

\* Calls begun so far, by all threads together.
RECURSIVE SumOver(_, _)
SumOver(f, S) ==
    IF S = {} THEN 0
    ELSE LET x == CHOOSE y \in S : TRUE IN f[x] + SumOver(f, S \ {x})

CallsBegun ==
    SumOver(nCalls, Threads) + Cardinality({t \in Threads : pc[t] # "idle"})

\* A thread enters the accessor for class c: a new call begins.
BeginCall(t, c, published) ==
    /\ pc[t] = "idle"
    /\ CallsBegun < MaxCalls
    /\ pc' = [pc EXCEPT ![t] = "check1"]
    /\ cls' = [cls EXCEPT ![t] = c]
    /\ hist' = [hist EXCEPT ![t] = NewHist(published)]

\* The call of t returns the instance inst.
EndCallReturn(t, inst) ==
    /\ returned' = [returned EXCEPT ![t] = Append(@, [cls |-> cls[t], inst |-> inst])]
    /\ nCalls' = [nCalls EXCEPT ![t] = @ + 1]
    /\ pc' = [pc EXCEPT ![t] = "idle"]

\* The call of t ends with the constructor's exception.
EndCallRaise(t) ==
    /\ raised' = [raised EXCEPT ![t] = @ + 1]
    /\ nCalls' = [nCalls EXCEPT ![t] = @ + 1]
    /\ pc' = [pc EXCEPT ![t] = "idle"]

\* cls(*args) completes: a new object, not yet stored anywhere.
CtorCompletes(t) ==
    /\ obj' = [obj EXCEPT ![t] = nextId]
    /\ nextId' = nextId + 1
    /\ constructed' = [constructed EXCEPT ![cls[t]] = @ + 1]
    /\ hist' = [hist EXCEPT ![t].built = TRUE]

\* cls(*args) raises.
CtorRaises ==
    /\ failures < MaxFailures
    /\ failures' = failures + 1

\* ------------------------------------------------- unsafe_singleton (10-22)
UnsafeCall(t) ==
    /\ demo = "unsafe"
    /\ BeginCall(t, DecoratedClass, DecoratedClass \in DOMAIN instances)
    /\ UNCHANGED <<demo, obj, instances, lock, metaInstances, metaLock, nextId,
                   nCalls, returned, raised, constructed, failures>>
    /\ OtherThanThreads

\* UnsafeCheck with the test left out: every call constructs.
UnsafeCheckMissing(t) ==
    /\ demo = "unsafe"
    /\ pc[t] = "check1"
    /\ pc' = [pc EXCEPT ![t] = "sleep"]
    /\ hist' = [hist EXCEPT ![t].outerMiss = cls[t] \notin DOMAIN instances]
    /\ UNCHANGED <<demo, cls, obj, instances, lock, metaInstances, metaLock,
                   nextId, nCalls, returned, raised, constructed, failures>>
    /\ OtherThanThreads

\* if cls not in instances:
UnsafeCheck(t) ==
    /\ demo = "unsafe"
    /\ pc[t] = "check1"
    /\ IF cls[t] \notin DOMAIN instances
          THEN /\ pc' = [pc EXCEPT ![t] = "sleep"]
               /\ hist' = [hist EXCEPT ![t].outerMiss = TRUE]
          ELSE /\ pc' = [pc EXCEPT ![t] = "return"]
               /\ hist' = hist
    /\ UNCHANGED <<demo, cls, obj, instances, lock, metaInstances, metaLock,
                   nextId, nCalls, returned, raised, constructed, failures>>
    /\ OtherThanThreads

\* time.sleep(0.01)
UnsafeSleep(t) ==
    /\ demo = "unsafe"
    /\ pc[t] = "sleep"
    /\ pc' = [pc EXCEPT ![t] = "construct"]
    /\ UNCHANGED <<demo, cls, obj, instances, lock, metaInstances, metaLock,
                   nextId, nCalls, returned, raised, constructed, failures, hist>>
    /\ OtherThanThreads

\* cls(*args, **kwargs), the right-hand side of line 19
UnsafeConstruct(t) ==
    /\ demo = "unsafe"
    /\ pc[t] = "construct"
    /\ CtorCompletes(t)
    /\ pc' = [pc EXCEPT ![t] = "store"]
    /\ UNCHANGED <<demo, cls, instances, lock, metaInstances, metaLock,
                   nCalls, returned, raised, failures>>
    /\ OtherThanThreads

\* cls(*args, **kwargs) raises: the exception leaves get_instance
UnsafeConstructRaises(t) ==
    /\ demo = "unsafe"
    /\ pc[t] = "construct"
    /\ CtorRaises
    /\ EndCallRaise(t)
    /\ UNCHANGED <<demo, cls, obj, instances, lock, metaInstances, metaLock,
                   nextId, returned, constructed, hist>>
    /\ OtherThanThreads

\* instances[cls] = <the new object>
UnsafeStore(t) ==
    /\ demo = "unsafe"
    /\ pc[t] = "store"
    /\ instances' = Put(instances, cls[t], obj[t])
    /\ pc' = [pc EXCEPT ![t] = "return"]
    /\ UNCHANGED <<demo, cls, obj, lock, metaInstances, metaLock, nextId,
                   nCalls, returned, raised, constructed, failures, hist>>
    /\ OtherThanThreads

\* UnsafeReturn as  return <the object this call constructed>.
UnsafeReturnOwn(t) ==
    /\ demo = "unsafe"
    /\ pc[t] = "return"
    /\ EndCallReturn(t, obj[t])
    /\ UNCHANGED <<demo, cls, obj, instances, lock, metaInstances, metaLock,
                   nextId, raised, constructed, failures, hist>>
    /\ OtherThanThreads

\* return instances[cls]
UnsafeReturn(t) ==
    /\ demo = "unsafe"
    /\ pc[t] = "return"
    /\ EndCallReturn(t, instances[cls[t]])
    /\ UNCHANGED <<demo, cls, obj, instances, lock, metaInstances, metaLock,
                   nextId, raised, constructed, failures, hist>>
    /\ OtherThanThreads

UnsafeNext ==
    \E t \in Threads :
        \/ UnsafeCall(t)
        \/ UnsafeCheck(t)
        \/ UnsafeSleep(t)
        \/ UnsafeConstruct(t)
        \/ UnsafeConstructRaises(t)
        \/ UnsafeStore(t)
        \/ UnsafeReturn(t)

\* --------------------------------------------------- safe_singleton (25-38)
SafeCall(t) ==
    /\ demo = "safe"
    /\ BeginCall(t, DecoratedClass, DecoratedClass \in DOMAIN instances)
    /\ UNCHANGED <<demo, obj, instances, lock, metaInstances, metaLock, nextId,
                   nCalls, returned, raised, constructed, failures>>
    /\ OtherThanThreads

\* SafeCheckOuter without the fast path: every call goes for the lock.
SafeCheckOuterAlwaysLocks(t) ==
    /\ demo = "safe"
    /\ pc[t] = "check1"
    /\ pc' = [pc EXCEPT ![t] = "acquire"]
    /\ hist' = [hist EXCEPT ![t].outerMiss = cls[t] \notin DOMAIN instances]
    /\ UNCHANGED <<demo, cls, obj, instances, lock, metaInstances, metaLock,
                   nextId, nCalls, returned, raised, constructed, failures>>
    /\ OtherThanThreads

\* if cls not in instances:                         (line 31, no lock held)
SafeCheckOuter(t) ==
    /\ demo = "safe"
    /\ pc[t] = "check1"
    /\ IF cls[t] \notin DOMAIN instances
          THEN /\ pc' = [pc EXCEPT ![t] = "acquire"]
               /\ hist' = [hist EXCEPT ![t].outerMiss = TRUE]
          ELSE /\ pc' = [pc EXCEPT ![t] = "return"]
               /\ hist' = hist
    /\ UNCHANGED <<demo, cls, obj, instances, lock, metaInstances, metaLock,
                   nextId, nCalls, returned, raised, constructed, failures>>
    /\ OtherThanThreads

\* with lock:  -- lock.acquire() blocks while the lock is held
SafeAcquire(t) ==
    /\ demo = "safe"
    /\ pc[t] = "acquire"
    /\ ~lock
    /\ lock' = TRUE
    /\ pc' = [pc EXCEPT ![t] = "check2"]
    /\ hist' = [hist EXCEPT ![t].tookLock = TRUE,
                            ![t].acqPub = cls[t] \in DOMAIN instances]
    /\ UNCHANGED <<demo, cls, obj, instances, metaInstances, metaLock, nextId,
                   nCalls, returned, raised, constructed, failures>>
    /\ OtherThanThreads

\* SafeCheckInner without the second test: whoever holds the lock constructs.
SafeCheckInnerMissing(t) ==
    /\ demo = "safe"
    /\ pc[t] = "check2"
    /\ pc' = [pc EXCEPT ![t] = "sleep"]
    /\ UNCHANGED <<demo, cls, obj, instances, lock, metaInstances, metaLock,
                   nextId, nCalls, returned, raised, constructed, failures, hist>>
    /\ OtherThanThreads

\* if cls not in instances:                         (line 33, lock held)
SafeCheckInner(t) ==
    /\ demo = "safe"
    /\ pc[t] = "check2"
    /\ IF cls[t] \notin DOMAIN instances
          THEN pc' = [pc EXCEPT ![t] = "sleep"]
          ELSE pc' = [pc EXCEPT ![t] = "release"]
    /\ UNCHANGED <<demo, cls, obj, instances, lock, metaInstances, metaLock,
                   nextId, nCalls, returned, raised, constructed, failures, hist>>
    /\ OtherThanThreads

\* time.sleep(0.01)
SafeSleep(t) ==
    /\ demo = "safe"
    /\ pc[t] = "sleep"
    /\ pc' = [pc EXCEPT ![t] = "construct"]
    /\ UNCHANGED <<demo, cls, obj, instances, lock, metaInstances, metaLock,
                   nextId, nCalls, returned, raised, constructed, failures, hist>>
    /\ OtherThanThreads

\* cls(*args, **kwargs), the right-hand side of line 35
SafeConstruct(t) ==
    /\ demo = "safe"
    /\ pc[t] = "construct"
    /\ CtorCompletes(t)
    /\ pc' = [pc EXCEPT ![t] = "store"]
    /\ UNCHANGED <<demo, cls, instances, lock, metaInstances, metaLock,
                   nCalls, returned, raised, failures>>
    /\ OtherThanThreads

\* cls(*args, **kwargs) raises: the exception starts to unwind the with block
SafeConstructRaises(t) ==
    /\ demo = "safe"
    /\ pc[t] = "construct"
    /\ CtorRaises
    /\ pc' = [pc EXCEPT ![t] = "unwind"]
    /\ UNCHANGED <<demo, cls, obj, instances, lock, metaInstances, metaLock,
                   nextId, nCalls, returned, raised, constructed, hist>>
    /\ OtherThanThreads

\* instances[cls] = <the new object>
SafeStore(t) ==
    /\ demo = "safe"
    /\ pc[t] = "store"
    /\ instances' = Put(instances, cls[t], obj[t])
    /\ pc' = [pc EXCEPT ![t] = "release"]
    /\ UNCHANGED <<demo, cls, obj, lock, metaInstances, metaLock, nextId,
                   nCalls, returned, raised, constructed, failures, hist>>
    /\ OtherThanThreads

\* the with block ends normally: lock.release()
SafeRelease(t) ==
    /\ demo = "safe"
    /\ pc[t] = "release"
    /\ lock' = FALSE
    /\ pc' = [pc EXCEPT ![t] = "return"]
    /\ UNCHANGED <<demo, cls, obj, instances, metaInstances, metaLock, nextId,
                   nCalls, returned, raised, constructed, failures, hist>>
    /\ OtherThanThreads

\* SafeUnwind as with lock.acquire() ... lock.release() and no try/finally:
\* the exception leaves get_instance with the lock held.
SafeUnwindKeepsLock(t) ==
    /\ demo = "safe"
    /\ pc[t] = "unwind"
    /\ EndCallRaise(t)
    /\ UNCHANGED <<demo, cls, obj, instances, lock, metaInstances, metaLock,
                   nextId, returned, constructed, failures, hist>>
    /\ OtherThanThreads

\* the with block is left by the exception: lock.release(), then the
\* exception leaves get_instance
SafeUnwind(t) ==
    /\ demo = "safe"
    /\ pc[t] = "unwind"
    /\ lock' = FALSE
    /\ EndCallRaise(t)
    /\ UNCHANGED <<demo, cls, obj, instances, metaInstances, metaLock, nextId,
                   returned, constructed, failures, hist>>
    /\ OtherThanThreads

\* return instances[cls]
SafeReturn(t) ==
    /\ demo = "safe"
    /\ pc[t] = "return"
    /\ EndCallReturn(t, instances[cls[t]])
    /\ UNCHANGED <<demo, cls, obj, instances, lock, metaInstances, metaLock,
                   nextId, raised, constructed, failures, hist>>
    /\ OtherThanThreads

SafeNext ==
    \E t \in Threads :
        \/ SafeCall(t)
        \/ SafeCheckOuter(t)
        \/ SafeAcquire(t)
        \/ SafeCheckInner(t)
        \/ SafeSleep(t)
        \/ SafeConstruct(t)
        \/ SafeConstructRaises(t)
        \/ SafeStore(t)
        \/ SafeRelease(t)
        \/ SafeUnwind(t)
        \/ SafeReturn(t)
\* ------------------------------------- ThreadSafeSingletonMeta (41-53)
MetaCall(t, c) ==
    /\ demo = "meta"
    /\ BeginCall(t, c, c \in DOMAIN metaInstances)
    /\ UNCHANGED <<demo, obj, instances, lock, metaInstances, metaLock, nextId,
                   nCalls, returned, raised, constructed, failures>>
    /\ OtherThanThreads

\* if cls not in cls._instances:                         (line 48, no lock held)
MetaCheckOuter(t) ==
    /\ demo = "meta"
    /\ pc[t] = "check1"
    /\ IF cls[t] \notin DOMAIN metaInstances
          THEN /\ pc' = [pc EXCEPT ![t] = "acquire"]
               /\ hist' = [hist EXCEPT ![t].outerMiss = TRUE]
          ELSE /\ pc' = [pc EXCEPT ![t] = "return"]
               /\ hist' = hist
    /\ UNCHANGED <<demo, cls, obj, instances, lock, metaInstances, metaLock,
                   nextId, nCalls, returned, raised, constructed, failures>>
    /\ OtherThanThreads

\* MetaAcquire with a lock that never blocks.
MetaAcquireNoBlock(t) ==
    /\ demo = "meta"
    /\ pc[t] = "acquire"
    /\ metaLock' = TRUE
    /\ pc' = [pc EXCEPT ![t] = "check2"]
    /\ hist' = [hist EXCEPT ![t].tookLock = TRUE,
                            ![t].acqPub = cls[t] \in DOMAIN metaInstances]
    /\ UNCHANGED <<demo, cls, obj, instances, lock, metaInstances, nextId,
                   nCalls, returned, raised, constructed, failures>>
    /\ OtherThanThreads

\* with cls._lock:  -- the one lock of the metaclass; acquire() blocks
\* while the lock is held
MetaAcquire(t) ==
    /\ demo = "meta"
    /\ pc[t] = "acquire"
    /\ ~metaLock
    /\ metaLock' = TRUE
    /\ pc' = [pc EXCEPT ![t] = "check2"]
    /\ hist' = [hist EXCEPT ![t].tookLock = TRUE,
                            ![t].acqPub = cls[t] \in DOMAIN metaInstances]
    /\ UNCHANGED <<demo, cls, obj, instances, lock, metaInstances, nextId,
                   nCalls, returned, raised, constructed, failures>>
    /\ OtherThanThreads

\* if cls not in cls._instances:                         (line 50, lock held)
MetaCheckInner(t) ==
    /\ demo = "meta"
    /\ pc[t] = "check2"
    /\ IF cls[t] \notin DOMAIN metaInstances
          THEN pc' = [pc EXCEPT ![t] = "sleep"]
          ELSE pc' = [pc EXCEPT ![t] = "release"]
    /\ UNCHANGED <<demo, cls, obj, instances, lock, metaInstances, metaLock,
                   nextId, nCalls, returned, raised, constructed, failures, hist>>
    /\ OtherThanThreads

\* time.sleep(0.01)
MetaSleep(t) ==
    /\ demo = "meta"
    /\ pc[t] = "sleep"
    /\ pc' = [pc EXCEPT ![t] = "construct"]
    /\ UNCHANGED <<demo, cls, obj, instances, lock, metaInstances, metaLock,
                   nextId, nCalls, returned, raised, constructed, failures, hist>>
    /\ OtherThanThreads

\* super().__call__(*args, **kwargs), the right-hand side of line 52
MetaConstruct(t) ==
    /\ demo = "meta"
    /\ pc[t] = "construct"
    /\ CtorCompletes(t)
    /\ pc' = [pc EXCEPT ![t] = "store"]
    /\ UNCHANGED <<demo, cls, instances, lock, metaInstances, metaLock,
                   nCalls, returned, raised, failures>>
    /\ OtherThanThreads

\* cls(*args, **kwargs) raises: the exception starts to unwind the with block
MetaConstructRaises(t) ==
    /\ demo = "meta"
    /\ pc[t] = "construct"
    /\ CtorRaises
    /\ pc' = [pc EXCEPT ![t] = "unwind"]
    /\ UNCHANGED <<demo, cls, obj, instances, lock, metaInstances, metaLock,
                   nextId, nCalls, returned, raised, constructed, hist>>
    /\ OtherThanThreads

\* cls._instances[cls] = <the new object>
MetaStore(t) ==
    /\ demo = "meta"
    /\ pc[t] = "store"
    /\ metaInstances' = Put(metaInstances, cls[t], obj[t])
    /\ pc' = [pc EXCEPT ![t] = "release"]
    /\ UNCHANGED <<demo, cls, obj, instances, lock, metaLock, nextId,
                   nCalls, returned, raised, constructed, failures, hist>>
    /\ OtherThanThreads

\* MetaRelease as a with block that leaves the lock held.
MetaReleaseKeepsLock(t) ==
    /\ demo = "meta"
    /\ pc[t] = "release"
    /\ pc' = [pc EXCEPT ![t] = "return"]
    /\ UNCHANGED <<demo, cls, obj, instances, lock, metaInstances, metaLock,
                   nextId, nCalls, returned, raised, constructed, failures, hist>>
    /\ OtherThanThreads

\* the with block ends normally: lock.release()
MetaRelease(t) ==
    /\ demo = "meta"
    /\ pc[t] = "release"
    /\ metaLock' = FALSE
    /\ pc' = [pc EXCEPT ![t] = "return"]
    /\ UNCHANGED <<demo, cls, obj, instances, lock, metaInstances, nextId,
                   nCalls, returned, raised, constructed, failures, hist>>
    /\ OtherThanThreads

\* the with block is left by the exception: lock.release(), then the
\* exception leaves __call__
MetaUnwind(t) ==
    /\ demo = "meta"
    /\ pc[t] = "unwind"
    /\ metaLock' = FALSE
    /\ EndCallRaise(t)
    /\ UNCHANGED <<demo, cls, obj, instances, lock, metaInstances, nextId,
                   returned, constructed, failures, hist>>
    /\ OtherThanThreads

\* return cls._instances[cls]
MetaReturn(t) ==
    /\ demo = "meta"
    /\ pc[t] = "return"
    /\ EndCallReturn(t, metaInstances[cls[t]])
    /\ UNCHANGED <<demo, cls, obj, instances, lock, metaInstances, metaLock,
                   nextId, raised, constructed, failures, hist>>
    /\ OtherThanThreads

MetaNext ==
    \E t \in Threads :
        \/ \E c \in MetaClasses : MetaCall(t, c)
        \/ MetaCheckOuter(t)
        \/ MetaAcquire(t)
        \/ MetaCheckInner(t)
        \/ MetaSleep(t)
        \/ MetaConstruct(t)
        \/ MetaConstructRaises(t)
        \/ MetaStore(t)
        \/ MetaRelease(t)
        \/ MetaUnwind(t)
        \/ MetaReturn(t)

\* ======================================================================
\* The single-threaded singletons.
\* ======================================================================
MaxSeqCalls == 3

\* The callables of the demonstrations, named module.class.
NewCM == "new_pitfall.ConfigManager"
DecoCM == "decorator_example.ConfigManager"
MetaCM == "metaclass_example.ConfigManager"
MetaDB == "metaclass_example.DatabaseConfigManager"
Accessors == {NewCM, DecoCM, MetaCM, MetaDB}

\* class DatabaseConfigManager(ConfigManager)
SingletonMetaClasses == {MetaCM, MetaDB}

\* The values the tests store under "test".
TestValues == {123, 456}

\* The two demonstrations of 04_decorator_subclassing_pitfall.py.
Scopes == {"decorator", "metaclass"}

\* _load_config with no variable of the environment set: os.getenv gives
\* None for API_KEY and the defaults for DEBUG and MAX_CONN.
LoadConfig ==
    [api_key |-> "None", debug_mode |-> FALSE, max_connections |-> 10]

\* _load_db_config: self._config.update({...}), environment not set
LoadDbConfig(config) ==
    Put(Put(Put(config, "db_host", "localhost"), "db_port", 5432),
        "db_name", "myapp")

\* The identity of the next object allocated.
FreshRef == Cardinality(DOMAIN heap) + 1

\* The single-threaded scripts: each is run on its own.
Scripts == {"01_new_pitfall", "02_decorator_example", "metaclass_example",
            "04_decorator_subclassing_pitfall"}

\* The script an accessor belongs to.
ScriptOf(acc) ==
    CASE acc = NewCM -> "01_new_pitfall"
      [] acc = DecoCM -> "02_decorator_example"
      [] acc \in SingletonMetaClasses -> "metaclass_example"

SingletonInit ==
    /\ newInstance = 0
    /\ decoInstances = EmptyDict
    /\ smInstances = EmptyDict
    /\ heap = EmptyDict
    /\ refs = [a \in Accessors |-> <<>>]
    /\ initCount = [a \in Accessors |-> 0]
    /\ allocCount = [a \in Accessors |-> 0]
    /\ loadCount = [a \in Accessors |-> 0]
    /\ written = [a \in Accessors |-> {}]
    /\ ns = [s \in Scopes |-> EmptyDict]
    /\ tried = [s \in Scopes |-> FALSE]
    /\ typeErrors = [s \in Scopes |-> 0]

OtherThanSingletons ==
    UNCHANGED <<threadVars, pizzaVars, mixinInitVars, converterVars,
                loggerVars, nestedVars>>

\* NewMustAllocate without the test: every call allocates.
NewAlwaysAllocates == TRUE

\* ConfigManager.__new__ of 01_new_pitfall.py: if cls._instance is None
NewMustAllocate == newInstance = 0

\* NewDunderInit as an __init__ that calls self._load_config().
NewDunderInitReloads(object) == [object EXCEPT !.config = LoadConfig]

\* ConfigManager.__init__ of 01_new_pitfall.py: print(randint(1, 100)); the
\* object is left as it is.
NewDunderInit(object) == object

\* c = ConfigManager() of 01_new_pitfall.py: type.__call__ runs
\* ConfigManager.__new__ and then ConfigManager.__init__ on what it returned.
NewCall ==
    /\ script = "01_new_pitfall"
    /\ UNCHANGED script
    /\ Len(refs[NewCM]) < MaxSeqCalls
    /\ LET alloc == NewMustAllocate
           r == IF alloc THEN FreshRef ELSE newInstance
           made == IF alloc
                      THEN Put(heap, r, [cls |-> NewCM, config |-> LoadConfig])
                      ELSE heap
       IN  /\ newInstance' = r
           /\ heap' = [made EXCEPT ![r] = NewDunderInit(@)]
           /\ allocCount' = [allocCount EXCEPT
                                ![NewCM] = IF alloc THEN @ + 1 ELSE @]
           /\ loadCount' = [loadCount EXCEPT
                                ![NewCM] = IF alloc THEN @ + 1 ELSE @]
           /\ initCount' = [initCount EXCEPT ![NewCM] = @ + 1]
           /\ refs' = [refs EXCEPT ![NewCM] = Append(@, r)]
    /\ UNCHANGED <<decoInstances, smInstances, written, ns, tried, typeErrors>>
    /\ OtherThanSingletons

\* get_instance of 02_decorator_example.py: if cls not in instances
DecoMustConstruct == DecoCM \notin DOMAIN decoInstances

\* c = ConfigManager() of 02_decorator_example.py: get_instance()
DecoCall ==
    /\ script = "02_decorator_example"
    /\ UNCHANGED script
    /\ Len(refs[DecoCM]) < MaxSeqCalls
    /\ LET build == DecoMustConstruct
           r == IF build THEN FreshRef ELSE decoInstances[DecoCM]
       IN  /\ heap' = IF build
                         THEN Put(heap, r, [cls |-> DecoCM, config |-> LoadConfig])
                         ELSE heap
           /\ decoInstances' = IF build THEN Put(decoInstances, DecoCM, r)
                                        ELSE decoInstances
           /\ allocCount' = [allocCount EXCEPT
                                ![DecoCM] = IF build THEN @ + 1 ELSE @]
           /\ loadCount' = [loadCount EXCEPT
                                ![DecoCM] = IF build THEN @ + 1 ELSE @]
           /\ initCount' = [initCount EXCEPT
                                ![DecoCM] = IF build THEN @ + 1 ELSE @]
           /\ refs' = [refs EXCEPT ![DecoCM] = Append(@, decoInstances'[DecoCM])]
    /\ UNCHANGED <<newInstance, smInstances, written, ns, tried, typeErrors>>
    /\ OtherThanSingletons

\* SingletonMetaKey with one slot for the whole hierarchy.
SingletonMetaKeyOfBase(c) == MetaCM

\* SingletonMeta.__call__: the key under which the instance of c is kept
SingletonMetaKey(c) == c

\* The object c.__init__ leaves behind: ConfigManager.__init__ loads the
\* configuration; DatabaseConfigManager.__init__ runs it through super() and
\* then _load_db_config.
SingletonMetaConstruct(c) ==
    [cls |-> c,
     config |-> IF c = MetaDB THEN LoadDbConfig(LoadConfig) ELSE LoadConfig]

\* c() for a class of metaclass_example.py: SingletonMeta.__call__
SingletonMetaCall(c) ==
    /\ script = "metaclass_example"
    /\ UNCHANGED script
    /\ Len(refs[c]) < MaxSeqCalls
    /\ LET key == SingletonMetaKey(c)
           build == key \notin DOMAIN smInstances
           r == IF build THEN FreshRef ELSE smInstances[key]
       IN  /\ heap' = IF build THEN Put(heap, r, SingletonMetaConstruct(c))
                               ELSE heap
           /\ smInstances' = IF build THEN Put(smInstances, key, r)
                                      ELSE smInstances
           /\ allocCount' = [allocCount EXCEPT ![c] = IF build THEN @ + 1 ELSE @]
           /\ loadCount' = [loadCount EXCEPT ![c] = IF build THEN @ + 1 ELSE @]
           /\ initCount' = [initCount EXCEPT ![c] = IF build THEN @ + 1 ELSE @]
           /\ refs' = [refs EXCEPT ![c] = Append(@, smInstances'[key])]
    /\ UNCHANGED <<newInstance, decoInstances, written, ns, tried, typeErrors>>
    /\ OtherThanSingletons

\* a._config["test"] = v, a being the result of the i-th call of accessor acc
SetTest(acc, i, v) ==
    /\ script = ScriptOf(acc)
    /\ UNCHANGED script
    /\ i \in 1..Len(refs[acc])
    /\ heap' = [heap EXCEPT ![refs[acc][i]].config = Put(@, "test", v)]
    /\ written' = [written EXCEPT
                      ![acc] = {[val |-> v, via |-> i, calls |-> Len(refs[acc])]}]
    /\ UNCHANGED <<newInstance, decoInstances, smInstances, refs, initCount,
                   allocCount, loadCount, ns, tried, typeErrors>>
    /\ OtherThanSingletons

\* ------------------------------ 04_decorator_subclassing_pitfall.py
\* What a name can be bound to: a class (with its metaclass and the names of
\* its bases) or a plain function; TypeErrorValue is the outcome of a class
\* statement that raised.
ClassValue(name, meta, bases) ==
    [kind |-> "class", name |-> name, meta |-> meta, bases |-> bases]

FunctionValue(name) ==
    [kind |-> "function", name |-> name, meta |-> "function", bases |-> <<>>]

TypeErrorValue ==
    [kind |-> "TypeError", name |-> "", meta |-> "", bases |-> <<>>]

\* type(v): a class's type is its metaclass, get_instance's is function
TypeOf(v) == v.meta

\* The types that derive from type: class SingletonMeta(type)
IsMetaclass(m) == m \in {"type", "SingletonMeta"}

\* SingletonDecorator as a decorator that returns the class it was given.
SingletonDecoratorReturnsClass(c) == c

\* def singleton(cls): ... return get_instance
SingletonDecorator(c) == FunctionValue("get_instance")

\* class name(*bases, metaclass=metaKw): the metaclass is the keyword's, or
\* the type of the first base, or type; the class is what calling it with
\* (name, bases, namespace) returns, and only a metaclass accepts that call.
ClassStatement(name, bases, metaKw) ==
    LET meta == IF metaKw # "" THEN metaKw
                ELSE IF bases = <<>> THEN "type"
                ELSE TypeOf(bases[1])
    IN  IF IsMetaclass(meta)
           THEN ClassValue(name, meta, [i \in DOMAIN bases |-> bases[i].name])
           ELSE TypeErrorValue

\* @singleton class Logger: ...            (demonstrate_decorator_issue)
DecoratorDefineLogger ==
    /\ script = "04_decorator_subclassing_pitfall"
    /\ UNCHANGED script
    /\ "Logger" \notin DOMAIN ns["decorator"]
    /\ ns' = [ns EXCEPT !["decorator"] =
                 Put(@, "Logger",
                     SingletonDecorator(ClassStatement("Logger", <<>>, "")))]
    /\ UNCHANGED <<newInstance, decoInstances, smInstances, heap, refs,
                   initCount, allocCount, loadCount, written, tried, typeErrors>>
    /\ OtherThanSingletons

\* class Logger(metaclass=SingletonMeta): ...  (demonstrate_metaclass_solution)
MetaclassDefineLogger ==
    /\ script = "04_decorator_subclassing_pitfall"
    /\ UNCHANGED script
    /\ "Logger" \notin DOMAIN ns["metaclass"]
    /\ ns' = [ns EXCEPT !["metaclass"] =
                 Put(@, "Logger", ClassStatement("Logger", <<>>, "SingletonMeta"))]
    /\ UNCHANGED <<newInstance, decoInstances, smInstances, heap, refs,
                   initCount, allocCount, loadCount, written, tried, typeErrors>>
    /\ OtherThanSingletons

\* class FileLogger(Logger): ...  -- in the decorator's demonstration inside
\* try/except TypeError
DefineFileLogger(s) ==
    /\ script = "04_decorator_subclassing_pitfall"
    /\ UNCHANGED script
    /\ "Logger" \in DOMAIN ns[s]
    /\ ~tried[s]
    /\ tried' = [tried EXCEPT ![s] = TRUE]
    /\ LET v == ClassStatement("FileLogger", <<ns[s]["Logger"]>>, "")
       IN  IF v.kind = "TypeError"
              THEN /\ typeErrors' = [typeErrors EXCEPT ![s] = @ + 1]
                   /\ ns' = ns
              ELSE /\ ns' = [ns EXCEPT ![s] = Put(@, "FileLogger", v)]
                   /\ typeErrors' = typeErrors
    /\ UNCHANGED <<newInstance, decoInstances, smInstances, heap, refs,
                   initCount, allocCount, loadCount, written>>
    /\ OtherThanSingletons

\* ------------- the loggers of 04_decorator_subclassing_pitfall.py
\* The argument lists the loggers are called with: file1 = FileLogger("app.log"),
\* file2 = FileLogger("other.log"), log1 = Logger("base"), and no argument.
LoggerArgs == {<<>>, <<"app.log">>, <<"other.log">>, <<"base">>}

LoggerClasses == {"Logger", "FileLogger"}

\* Logger.__init__(self, name): self.name = name; strings are kept as
\* their pieces.
LoggerInit(self, name) == [self EXCEPT !.attrs = Put(@, "name", name)]

\* FileLogger.__init__(self, filename):
\* super().__init__(f"FileLogger({filename})"); self.filename = filename
FileLoggerInit(self, filename) ==
    [LoggerInit(self, <<"FileLogger(", filename, ")">>)
         EXCEPT !.attrs = Put(@, "filename", filename)]

\* c.__init__(self, *args): Logger's name has the default "Logger", so it
\* takes no or one argument; FileLogger's filename has none, so it takes
\* exactly one. Arguments that cannot be bound raise TypeError before the
\* body runs.
BindAndInit(c, self, args) ==
    IF c = "FileLogger"
       THEN IF Len(args) # 1 THEN Raises("TypeError")
            ELSE Returns(FileLoggerInit(self, args[1]))
       ELSE IF Len(args) > 1 THEN Raises("TypeError")
            ELSE Returns(LoggerInit(self, IF Len(args) = 0 THEN <<"Logger">>
                                                           ELSE <<args[1]>>))

\* type.__call__(c, *args): a new object, then c.__init__(object, *args);
\* inits counts the runs of the class's __init__ that completed.
ConstructLogger(c, args) ==
    LET self == [cls |-> c, attrs |-> EmptyDict, inits |-> 0]
        done == BindAndInit(c, self, args)
    IN  IF done.raised # "" THEN done
        ELSE Returns([done.value EXCEPT !.inits = @ + 1])

LoggerObjectsInit ==
    /\ logInstances = [s \in Scopes |-> EmptyDict]
    /\ logHeap = EmptyDict
    /\ logCalls = <<>>

\* What a call of a logger leaves alone.
OtherThanLoggers ==
    UNCHANGED <<threadVars, singletonVars, pizzaVars, mixinInitVars, converterVars,
                nestedVars>>

\* LoggerMustConstruct without the test: every call constructs.
LoggerConstructsAlways(store, key) == TRUE

\* if cls not in instances:  (get_instance, line 14; SingletonMeta.__call__,
\* line 48)
LoggerMustConstruct(store, key) == key \notin DOMAIN store

\* c(*args) in scope s. In the decorator's scope the name is bound to
\* get_instance, whose closure holds the class and the dict instances; in the
\* metaclass's scope it is a class of SingletonMeta, whose __call__ uses
\* SingletonMeta._instances with the class as the key. A constructor that
\* raises leaves the dict as it was.
LoggerCall(s, c, args) ==
    /\ script = "04_decorator_subclassing_pitfall"
    /\ c \in DOMAIN ns[s]
    /\ ns[s][c].kind = "function" \/ TypeOf(ns[s][c]) = "SingletonMeta"
    /\ Len(logCalls) < MaxSeqCalls
    /\ LET build == LoggerMustConstruct(logInstances[s], c)
           new == ConstructLogger(c, args)
           r == Cardinality(DOMAIN logHeap) + 1
           call == [scope |-> s, cls |-> c, args |-> args]
       IN  IF build /\ new.raised # ""
              THEN /\ logCalls' = Append(logCalls,
                                         [call |-> call, raised |-> new.raised,
                                          ref |-> 0, built |-> FALSE])
                   /\ UNCHANGED <<logInstances, logHeap>>
           ELSE IF build
              THEN /\ logHeap' = Put(logHeap, r, new.value)
                   /\ logInstances' = [logInstances EXCEPT ![s] = Put(@, c, r)]
                   /\ logCalls' = Append(logCalls,
                                         [call |-> call, raised |-> "",
                                          ref |-> logInstances'[s][c],
                                          built |-> TRUE])
           ELSE /\ logCalls' = Append(logCalls,
                                      [call |-> call, raised |-> "",
                                       ref |-> logInstances[s][c],
                                       built |-> FALSE])
                /\ UNCHANGED <<logInstances, logHeap>>
    /\ OtherThanLoggers

SingletonNext ==
    \/ NewCall
    \/ DecoCall
    \/ \E c \in SingletonMetaClasses : SingletonMetaCall(c)
    \/ \E acc \in Accessors, i \in 1..MaxSeqCalls, v \in TestValues :
           SetTest(acc, i, v)
    \/ DecoratorDefineLogger
    \/ MetaclassDefineLogger
    \/ \E s \in Scopes : DefineFileLogger(s)
    \/ \E s \in Scopes, c \in LoggerClasses, args \in LoggerArgs :
           LoggerCall(s, c, args)

\* ======================================================================
\* attribute_modifying_mixin_example.py
\* ======================================================================
NPizzas == 2
MaxPizzaOps == 4

PizzaKinds == {"DeluxePizza", "VeggiePizza"}

\* class DeluxePizza(OlivesMixin, CheeseMixin, PepperoniMixin, PlainPizza)
\* class VeggiePizza(OlivesMixin, CheeseMixin, PlainPizza)
ClassBases ==
    [DeluxePizza |-> <<"OlivesMixin", "CheeseMixin", "PepperoniMixin", "PlainPizza">>,
     VeggiePizza |-> <<"OlivesMixin", "CheeseMixin", "PlainPizza">>,
     OlivesMixin |-> <<>>, CheeseMixin |-> <<>>, PepperoniMixin |-> <<>>,
     PlainPizza |-> <<>>]

\* The methods each class body defines.
ClassDefines ==
    [DeluxePizza |-> {"prepare_pizza"},
     VeggiePizza |-> {"prepare_pizza"},
     OlivesMixin |-> {"add_olives"},
     CheeseMixin |-> {"add_cheese"},
     PepperoniMixin |-> {"add_pepperoni"},
     PlainPizza |-> {"__init__", "show_toppings"}]

\* Attribute lookup on an instance of kind: the class itself, then its bases.
HasMethod(kind, m) ==
    \/ m \in ClassDefines[kind]
    \/ \E i \in DOMAIN ClassBases[kind] : m \in ClassDefines[ClassBases[kind][i]]

\* self.toppings += ["olives"]
AddOlives(toppings) == toppings \o <<"olives">>

\* AddCheese as self.toppings = ["cheese"].
AddCheeseReplaces(toppings) == <<"cheese">>

\* self.toppings += ["cheese"]
AddCheese(toppings) == toppings \o <<"cheese">>

\* self.toppings += ["pepperoni"]
AddPepperoni(toppings) == toppings \o <<"pepperoni">>

\* DeluxePizza.prepare_pizza
DeluxePrepare(toppings) == AddPepperoni(AddCheese(AddOlives(toppings)))

\* VeggiePizza.prepare_pizza
VeggiePrepare(toppings) == AddCheese(AddOlives(toppings))

\* sep.join(items), as the pieces of the resulting string
RECURSIVE Join(_, _)
Join(items, sep) ==
    IF Len(items) <= 1 THEN items
    ELSE <<Head(items), sep>> \o Join(Tail(items), sep)

\* PlainPizza.show_toppings, as the pieces of the resulting string
ShowToppings(toppings) ==
    <<"Toppings: ">> \o (IF toppings # <<>> THEN Join(toppings, ", ")
                                            ELSE <<"none">>)

PizzaInit ==
    /\ pizzas = EmptyDict
    /\ log = EmptyDict
    /\ attrErrors = 0
    /\ pizzaOps = 0

OtherThanPizzas ==
    UNCHANGED <<threadVars, singletonVars, mixinInitVars, converterVars,
                loggerVars, nestedVars>>

\* DeluxePizza() or VeggiePizza(): PlainPizza.__init__ sets self.toppings = []
NewPizza(kind) ==
    /\ Cardinality(DOMAIN pizzas) < NPizzas
    /\ LET p == Cardinality(DOMAIN pizzas) + 1
       IN  /\ pizzas' = Put(pizzas, p, [kind |-> kind, toppings |-> <<>>])
           /\ log' = Put(log, p, <<>>)
    /\ UNCHANGED <<attrErrors, pizzaOps>>
    /\ OtherThanPizzas

\* What the method m of an instance of kind makes of the toppings.
MethodEffect(kind, m, toppings) ==
    CASE m = "add_olives" -> AddOlives(toppings)
      [] m = "add_cheese" -> AddCheese(toppings)
      [] m = "add_pepperoni" -> AddPepperoni(toppings)
      [] m = "prepare_pizza" /\ kind = "DeluxePizza" -> DeluxePrepare(toppings)
      [] m = "prepare_pizza" /\ kind = "VeggiePizza" -> VeggiePrepare(toppings)

\* pizza.m(): AttributeError when the class and its bases define no m
CallMethod(p, m) ==
    /\ p \in DOMAIN pizzas
    /\ pizzaOps < MaxPizzaOps
    /\ pizzaOps' = pizzaOps + 1
    /\ IF HasMethod(pizzas[p].kind, m)
          THEN /\ pizzas' = [pizzas EXCEPT
                                ![p].toppings = MethodEffect(pizzas[p].kind, m, @)]
               /\ log' = [log EXCEPT ![p] = Append(@, m)]
               /\ attrErrors' = attrErrors
          ELSE /\ attrErrors' = attrErrors + 1
               /\ UNCHANGED <<pizzas, log>>
    /\ OtherThanPizzas

CallAddOlives(p) == CallMethod(p, "add_olives")

CallAddCheese(p) == CallMethod(p, "add_cheese")

CallAddPepperoni(p) == CallMethod(p, "add_pepperoni")

CallPreparePizza(p) == CallMethod(p, "prepare_pizza")

PizzaNext ==
    \/ \E kind \in PizzaKinds : NewPizza(kind)
    \/ \E p \in 1..NPizzas :
           \/ CallAddOlives(p)
           \/ CallAddCheese(p)
           \/ CallAddPepperoni(p)
           \/ CallPreparePizza(p)

\* ======================================================================
\* mixin_constructor_pitfall_example.py
\* ======================================================================
MaxObjects == 2

\* The arguments the constructors are called with.
Names == {"Alice", "Bob", "Carol"}
Timestamps == {0, 1234567890}
Values == {123, 456, 789}

\* The classes that are instantiated.
InitClasses == {"MyClass", "ClassA", "ClassB", "ClassC"}

\* class MyClass(MixinA, MixinB), class ClassA(NameMixin),
\* class ClassB(NameMixin), class ClassC(NameMixin, TimestampMixin)
InitBases ==
    [MyClass |-> <<"MixinA", "MixinB">>,
     ClassA |-> <<"NameMixin">>,
     ClassB |-> <<"NameMixin">>,
     ClassC |-> <<"NameMixin", "TimestampMixin">>]

\* c.__mro__: every base here derives from object alone, so the
\* linearization is the class, its bases in the order written, and object.
Mro(c) == <<c>> \o InitBases[c] \o <<"object">>

\* The class super() resolves to inside a method of class from, for an
\* instance whose class is c: the one after from in c.__mro__.
SuperOf(c, from) ==
    LET mro == Mro(c)
        i == CHOOSE k \in DOMAIN mro : mro[k] = from
    IN  mro[i + 1]

\* A new object of class c, before any __init__ ran; inits is the order in
\* which the __init__ methods are entered.
Blank(c, args) == [cls |-> c, args |-> args, attrs |-> EmptyDict, inits |-> <<>>]

Entered(self, c) == [self EXCEPT !.inits = Append(@, c)]

SetAttr(self, name, value) == [self EXCEPT !.attrs = Put(@, name, value)]

\* MixinB.__init__: print("MixinB init")
MixinBInit(self) == Entered(self, "MixinB")

\* MixinAInit as a cooperative initializer that goes on with super().__init__().
MixinAInitCooperative(self) == MixinBInit(Entered(self, "MixinA"))

\* MixinA.__init__: print("MixinA init"), and no call of super().__init__()
MixinAInit(self) == Entered(self, "MixinA")

\* NameMixin.__init__: self.name = name
NameMixinInit(self, name) == SetAttr(Entered(self, "NameMixin"), "name", name)

\* TimestampMixin.__init__: self.timestamp = timestamp
TimestampMixinInit(self, timestamp) ==
    SetAttr(Entered(self, "TimestampMixin"), "timestamp", timestamp)

\* The __init__ of class c, as super().__init__(*args) calls it.
CallInit(c, self, args) ==
    CASE c = "MixinA" -> MixinAInit(self)
      [] c = "MixinB" -> MixinBInit(self)
      [] c = "NameMixin" -> NameMixinInit(self, args[1])
      [] c = "TimestampMixin" -> TimestampMixinInit(self, args[1])
      [] c = "object" -> self

\* MyClass.__init__: super().__init__()
MyClassInit(self) ==
    CallInit(SuperOf(self.cls, "MyClass"), Entered(self, "MyClass"), <<>>)

\* ClassA.__init__: super().__init__(name); self.a_value = a_value
ClassAInit(self, name, a_value) ==
    SetAttr(CallInit(SuperOf(self.cls, "ClassA"), Entered(self, "ClassA"), <<name>>),
            "a_value", a_value)

\* ClassB.__init__: super().__init__(name); self.b_value = b_value
ClassBInit(self, name, b_value) ==
    SetAttr(CallInit(SuperOf(self.cls, "ClassB"), Entered(self, "ClassB"), <<name>>),
            "b_value", b_value)

\* ClassC.__init__: NameMixin.__init__(self, name);
\* TimestampMixin.__init__(self, timestamp); self.c_value = c_value
ClassCInit(self, name, timestamp, c_value) ==
    SetAttr(TimestampMixinInit(NameMixinInit(Entered(self, "ClassC"), name),
                               timestamp),
            "c_value", c_value)

MixinInitInit == created = <<>>

OtherThanMixinInits ==
    UNCHANGED <<threadVars, singletonVars, pizzaVars, converterVars,
                loggerVars, nestedVars>>

\* obj = MyClass()
NewMyClass ==
    /\ Len(created) < MaxObjects
    /\ created' = Append(created, MyClassInit(Blank("MyClass", <<>>)))
    /\ OtherThanMixinInits

\* a = ClassA(name, a_value)
NewClassA(name, a_value) ==
    /\ Len(created) < MaxObjects
    /\ created' = Append(created, ClassAInit(Blank("ClassA", <<name, a_value>>),
                                       name, a_value))
    /\ OtherThanMixinInits

\* b = ClassB(name, b_value)
NewClassB(name, b_value) ==
    /\ Len(created) < MaxObjects
    /\ created' = Append(created, ClassBInit(Blank("ClassB", <<name, b_value>>),
                                       name, b_value))
    /\ OtherThanMixinInits

\* c = ClassC(name, timestamp, c_value)
NewClassC(name, timestamp, c_value) ==
    /\ Len(created) < MaxObjects
    /\ created' = Append(created, ClassCInit(Blank("ClassC", <<name, timestamp, c_value>>),
                                       name, timestamp, c_value))
    /\ OtherThanMixinInits

MixinInitNext ==
    \/ NewMyClass
    \/ \E name \in Names, v \in Values : NewClassA(name, v)
    \/ \E name \in Names, v \in Values : NewClassB(name, v)
    \/ \E name \in Names, ts \in Timestamps, v \in Values : NewClassC(name, ts, v)

\* ======================================================================
\* mixin_static_examples.py, and the Incomplete class of test_mixins.py
\* ======================================================================
Spread == 2
MaxAmount == 11

\* The byte counts the functions are called with: those of the tests, the
\* two thresholds of format_size, and the counts within Spread of each.
SizeMarks == {0, 500, 1024, 10240, 1048576, 2097152}

Sizes == UNION {(b - Spread)..(b + Spread) : b \in SizeMarks}

\* A Python number that is not an int: a float, kept as the fraction it is
\* exactly (every float is one; below 2^53 a division by 1024 or by
\* 1024 * 1024 loses nothing), in lowest terms with a positive denominator.
RECURSIVE Gcd(_, _)
Gcd(a, b) == IF b = 0 THEN a ELSE Gcd(b, a % b)

Abs(a) == IF a < 0 THEN 0 - a ELSE a

Ratio(n, d) ==
    LET g == Gcd(Abs(n), d)
    IN  [num |-> n \div g, den |-> d \div g]

\* The sizes in KB or MB the conversions to bytes are given: whole numbers
\* and fractions, of either sign.
Denominators == {1, 2048}

Amounts == {Ratio(a, b) : a \in (0 - MaxAmount)..MaxAmount, b \in Denominators}

\* x / y of an int x by a positive int y: true division
TrueDiv(x, y) == Ratio(x, y)

\* int(q * factor): the product, truncated towards zero
IntOfProduct(q, factor) ==
    LET p == q.num * factor
    IN  IF p >= 0 THEN p \div q.den ELSE 0 - ((0 - p) \div q.den)

\* MixinBytesToMb as an integer division, size_bytes // (1024 * 1024).
MixinBytesToMbFloor(size_bytes) == Ratio(size_bytes \div (1024 * 1024), 1)

\* DataConverterMixin.bytes_to_kb
MixinBytesToKb(size_bytes) == TrueDiv(size_bytes, 1024)

\* DataConverterMixin.bytes_to_mb
MixinBytesToMb(size_bytes) == TrueDiv(size_bytes, 1024 * 1024)

\* DataConverterMixin.kb_to_bytes
MixinKbToBytes(size_kb) == IntOfProduct(size_kb, 1024)

\* DataConverterMixin.mb_to_bytes
MixinMbToBytes(size_mb) == IntOfProduct(size_mb, 1024 * 1024)

\* DataConverterStaticClass.bytes_to_kb
StaticBytesToKb(size_bytes) == TrueDiv(size_bytes, 1024)

\* DataConverterStaticClass.bytes_to_mb
StaticBytesToMb(size_bytes) == TrueDiv(size_bytes, 1024 * 1024)

\* DataConverterStaticClass.kb_to_bytes
StaticKbToBytes(size_kb) == IntOfProduct(size_kb, 1024)

\* DataConverterStaticClass.mb_to_bytes
StaticMbToBytes(size_mb) == IntOfProduct(size_mb, 1024 * 1024)

\* str(n) of an int, as its characters
DigitChars == <<"0", "1", "2", "3", "4", "5", "6", "7", "8", "9">>

RECURSIVE NatStr(_)
NatStr(n) ==
    IF n < 10 THEN <<DigitChars[n + 1]>>
    ELSE NatStr(n \div 10) \o <<DigitChars[(n % 10) + 1]>>

IntStr(n) == IF n < 0 THEN <<"-">> \o NatStr(0 - n) ELSE NatStr(n)

\* a / b to the nearest integer, an exact half to the even neighbour
\* (a >= 0, b > 0)
RoundHalfEven(a, b) ==
    LET q == a \div b
        r == a % b
    IN  IF 2 * r < b THEN q
        ELSE IF 2 * r > b THEN q + 1
        ELSE IF q % 2 = 0 THEN q ELSE q + 1

\* f"{q:.2f}" of a float q >= 0: the decimal with two places nearest to the
\* float's exact value, as its characters
Fixed2(q) ==
    LET h == RoundHalfEven(q.num * 100, q.den)
    IN  NatStr(h \div 100) \o <<".">>
            \o <<DigitChars[((h % 100) \div 10) + 1], DigitChars[(h % 10) + 1]>>

\* FormatSize with the first test as size_bytes <= 1024.
FormatSizeInclusive(size_bytes) ==
    IF size_bytes <= 1024 THEN IntStr(size_bytes) \o <<" bytes">>
    ELSE IF size_bytes < 1024 * 1024
        THEN Fixed2(StaticBytesToKb(size_bytes)) \o <<" KB">>
    ELSE Fixed2(StaticBytesToMb(size_bytes)) \o <<" MB">>

\* DataConverterStaticClass.format_size, as the pieces of the string
FormatSize(size_bytes) ==
    IF size_bytes < 1024 THEN IntStr(size_bytes) \o <<" bytes">>
    ELSE IF size_bytes < 1024 * 1024
        THEN Fixed2(StaticBytesToKb(size_bytes)) \o <<" KB">>
    ELSE Fixed2(StaticBytesToMb(size_bytes)) \o <<" MB">>

\* The classes whose instances the calls go to; Incomplete is the class of
\* test_requires_attribute, which inherits the mixin and sets nothing.
DocKinds == {"PDFDocument", "WordDocument"}

\* The sizes of the documents of the script and of the tests.
DocSizes == {10240, 45000, 2097152, 2500000}

\* No document has been created yet.
NoDoc == [cls |-> "none", attrs |-> EmptyDict]

\* PDFDocument(name, size_bytes, page_count): Document.__init__ through
\* super().__init__(name, size_bytes), then self.page_count = page_count
PDFDocumentInit(name, size_bytes, page_count) ==
    [cls |-> "PDFDocument",
     attrs |-> Put(Put(Put(EmptyDict, "name", name), "size_bytes", size_bytes),
                   "page_count", page_count)]

\* WordDocument(name, size_bytes, word_count)
WordDocumentInit(name, size_bytes, word_count) ==
    [cls |-> "WordDocument",
     attrs |-> Put(Put(Put(EmptyDict, "name", name), "size_bytes", size_bytes),
                   "word_count", word_count)]

\* Incomplete(): object.__init__, no attribute is set
IncompleteInit == [cls |-> "Incomplete", attrs |-> EmptyDict]

\* LoadAttr as getattr(self, name, 0).
LoadAttrOrZero(self, name) ==
    IF name \in DOMAIN self.attrs THEN Returns(self.attrs[name]) ELSE Returns(0)

\* self.name: an instance attribute that was never set raises AttributeError
\* (the classes only annotate size_bytes, they give it no value)
LoadAttr(self, name) ==
    IF name \in DOMAIN self.attrs THEN Returns(self.attrs[name])
    ELSE Raises("AttributeError")

\* DataConverterMixin.get_size_in_mb: self.bytes_to_mb(self.size_bytes)
GetSizeInMb(self) ==
    LET size == LoadAttr(self, "size_bytes")
    IN  IF size.raised # "" THEN size ELSE Returns(MixinBytesToMb(size.value))

\* DataConverterMixin.get_size_in_kb: self.bytes_to_kb(self.size_bytes)
GetSizeInKb(self) ==
    LET size == LoadAttr(self, "size_bytes")
    IN  IF size.raised # "" THEN size ELSE Returns(MixinBytesToKb(size.value))

\* The names through which a static method of the converters is reached:
\* the two classes, and an instance of a class that inherits the mixin.
Owners == {"DataConverterMixin", "DataConverterStaticClass", "instance"}

\* What a call left behind: the function, the name it was reached through,
\* its argument (for an instance method, the instance) and its outcome.
Called(fn, owner, arg, outcome) ==
    [fn |-> fn, owner |-> owner, arg |-> arg, outcome |-> outcome]

ConverterInit ==
    /\ doc = NoDoc
    /\ last = Called("none", "none", 0, Returns(0))

OtherThanConverters ==
    UNCHANGED <<threadVars, singletonVars, pizzaVars, mixinInitVars, loggerVars,
                nestedVars>>

\* The owner can be called through: an instance needs a document at hand.
Reachable(owner) == owner = "instance" => doc.cls # "none"

\* doc = PDFDocument("file.pdf", n, 10) or WordDocument("file.docx", n, 1000)
NewDocument(kind, size_bytes) ==
    /\ doc' = IF kind = "PDFDocument"
                 THEN PDFDocumentInit("file.pdf", size_bytes, 10)
                 ELSE WordDocumentInit("file.docx", size_bytes, 1000)
    /\ UNCHANGED last
    /\ OtherThanConverters

\* incomplete = Incomplete()
NewIncomplete ==
    /\ doc' = IncompleteInit
    /\ UNCHANGED last
    /\ OtherThanConverters

\* owner.bytes_to_kb(n)
CallBytesToKb(owner, n) ==
    /\ Reachable(owner)
    /\ last' = Called("bytes_to_kb", owner, n,
                      Returns(IF owner = "DataConverterStaticClass"
                                 THEN StaticBytesToKb(n) ELSE MixinBytesToKb(n)))
    /\ UNCHANGED doc
    /\ OtherThanConverters

\* owner.bytes_to_mb(n)
CallBytesToMb(owner, n) ==
    /\ Reachable(owner)
    /\ last' = Called("bytes_to_mb", owner, n,
                      Returns(IF owner = "DataConverterStaticClass"
                                 THEN StaticBytesToMb(n) ELSE MixinBytesToMb(n)))
    /\ UNCHANGED doc
    /\ OtherThanConverters

\* owner.kb_to_bytes(k)
CallKbToBytes(owner, k) ==
    /\ Reachable(owner)
    /\ last' = Called("kb_to_bytes", owner, k,
                      Returns(IF owner = "DataConverterStaticClass"
                                 THEN StaticKbToBytes(k) ELSE MixinKbToBytes(k)))
    /\ UNCHANGED doc
    /\ OtherThanConverters

\* owner.mb_to_bytes(k)
CallMbToBytes(owner, k) ==
    /\ Reachable(owner)
    /\ last' = Called("mb_to_bytes", owner, k,
                      Returns(IF owner = "DataConverterStaticClass"
                                 THEN StaticMbToBytes(k) ELSE MixinMbToBytes(k)))
    /\ UNCHANGED doc
    /\ OtherThanConverters

\* DataConverterStaticClass.format_size(n)
CallFormatSize(n) ==
    /\ last' = Called("format_size", "DataConverterStaticClass", n,
                      Returns(FormatSize(n)))
    /\ UNCHANGED doc
    /\ OtherThanConverters

\* doc.get_size_in_mb()
CallGetSizeInMb ==
    /\ doc.cls # "none"
    /\ last' = Called("get_size_in_mb", "instance", doc, GetSizeInMb(doc))
    /\ UNCHANGED doc
    /\ OtherThanConverters

\* doc.get_size_in_kb()
CallGetSizeInKb ==
    /\ doc.cls # "none"
    /\ last' = Called("get_size_in_kb", "instance", doc, GetSizeInKb(doc))
    /\ UNCHANGED doc
    /\ OtherThanConverters

ConverterNext ==
    \/ \E kind \in DocKinds, n \in DocSizes : NewDocument(kind, n)
    \/ NewIncomplete
    \/ \E owner \in Owners, n \in Sizes : CallBytesToKb(owner, n)
    \/ \E owner \in Owners, n \in Sizes : CallBytesToMb(owner, n)
    \/ \E owner \in Owners, k \in Amounts : CallKbToBytes(owner, k)
    \/ \E owner \in Owners, k \in Amounts : CallMbToBytes(owner, k)
    \/ \E n \in Sizes : CallFormatSize(n)
    \/ CallGetSizeInMb
    \/ CallGetSizeInKb

\* ======================================================================
\* ThreadSafeSingletonMeta with a constructor that calls another class of
\* the metaclass. No class of decorator_thread_safety_issue.py does; Service
\* below stands for a class whose __init__ is  self.db = Database().
\* ======================================================================
\* The classes of the metaclass in this scenario.
NestedClasses == {"Database"} \cup NestingClasses

\* The class the constructor of a nesting class calls.
CalledByCtor(c) == "Database"

NestedInit == outer = [t \in Threads |-> ""]

\* What a step of a nested call leaves alone.
OtherThanNested ==
    UNCHANGED <<singletonVars, pizzaVars, mixinInitVars, converterVars, loggerVars>>

\* Service(): a thread enters ThreadSafeSingletonMeta.__call__ for a class
\* of the scenario.
NestedBegin(t, c) ==
    /\ outer[t] = ""
    /\ MetaCall(t, c)

\* NestedEnter as a construction that runs with the lock released.
NestedEnterOutsideLock(t) ==
    /\ demo = "meta"
    /\ pc[t] = "construct"
    /\ cls[t] \in NestingClasses
    /\ outer[t] = ""
    /\ outer' = [outer EXCEPT ![t] = cls[t]]
    /\ cls' = [cls EXCEPT ![t] = CalledByCtor(cls[t])]
    /\ pc' = [pc EXCEPT ![t] = "check1"]
    /\ metaLock' = FALSE
    /\ UNCHANGED <<demo, obj, instances, lock, metaInstances, nextId,
                   nCalls, returned, raised, constructed, failures, hist>>
    /\ OtherThanNested

\* super().__call__(*args, **kwargs) for a nesting class, line 52, inside
\* the with block: its __init__ starts and calls Database(), which enters
\* ThreadSafeSingletonMeta.__call__ again in the same thread, the lock
\* still held.
NestedEnter(t) ==
    /\ demo = "meta"
    /\ pc[t] = "construct"
    /\ cls[t] \in NestingClasses
    /\ outer[t] = ""
    /\ outer' = [outer EXCEPT ![t] = cls[t]]
    /\ cls' = [cls EXCEPT ![t] = CalledByCtor(cls[t])]
    /\ pc' = [pc EXCEPT ![t] = "check1"]
    /\ UNCHANGED <<demo, obj, instances, lock, metaInstances, metaLock, nextId,
                   nCalls, returned, raised, constructed, failures, hist>>
    /\ OtherThanNested

\* return cls._instances[cls] of the inner call: Database() gives its
\* instance to the constructor that called it, which then completes; the
\* outer __call__ goes on with the store of line 52.
NestedResume(t) ==
    /\ demo = "meta"
    /\ pc[t] = "return"
    /\ outer[t] # ""
    /\ cls' = [cls EXCEPT ![t] = outer[t]]
    /\ outer' = [outer EXCEPT ![t] = ""]
    /\ obj' = [obj EXCEPT ![t] = nextId]
    /\ nextId' = nextId + 1
    /\ constructed' = [constructed EXCEPT ![outer[t]] = @ + 1]
    /\ pc' = [pc EXCEPT ![t] = "store"]
    /\ UNCHANGED <<demo, instances, lock, metaInstances, metaLock,
                   nCalls, returned, raised, failures, hist>>
    /\ OtherThanNested

\* A constructor that calls no class of the metaclass: Database.__init__
NestedPlainConstruct(t) ==
    /\ cls[t] \notin NestingClasses
    /\ MetaConstruct(t)

\* The outermost call returns to the thread's caller.
NestedReturn(t) ==
    /\ outer[t] = ""
    /\ MetaReturn(t)

NestedNext ==
    \E t \in Threads :
        \/ \E c \in NestedClasses : NestedBegin(t, c)
        \/ MetaCheckOuter(t)
        \/ MetaAcquire(t)
        \/ MetaCheckInner(t)
        \/ MetaSleep(t)
        \/ NestedEnter(t)
        \/ NestedPlainConstruct(t)
        \/ NestedResume(t)
        \/ MetaStore(t)
        \/ MetaRelease(t)
        \/ NestedReturn(t)

\* ======================================================================
\* Specifications
\* ======================================================================
\* Nothing has run yet; "none": the threads (the scripts) are not started.
Objects == ThreadInit /\ SingletonInit /\ PizzaInit /\ MixinInitInit
               /\ ConverterInit /\ LoggerObjectsInit /\ NestedInit

Init == demo \in Demos /\ script = "none" /\ Objects

Next == UnsafeNext \/ SafeNext \/ MetaNext

Spec == Init /\ [][Next]_vars

\* The next step of the call thread t is in: every step of the lock-guarded
\* accessors but the entry into a new call.
Proceed(t) ==
    \/ SafeCheckOuter(t) \/ SafeAcquire(t) \/ SafeCheckInner(t) \/ SafeSleep(t)
    \/ SafeConstruct(t) \/ SafeConstructRaises(t) \/ SafeStore(t)
    \/ SafeRelease(t) \/ SafeUnwind(t) \/ SafeReturn(t)
    \/ MetaCheckOuter(t) \/ MetaAcquire(t) \/ MetaCheckInner(t) \/ MetaSleep(t)
    \/ MetaConstruct(t) \/ MetaConstructRaises(t) \/ MetaStore(t)
    \/ MetaRelease(t) \/ MetaUnwind(t) \/ MetaReturn(t)

\* The threads of the ThreadPoolExecutor, calling a lock-guarded accessor
\* under a fair scheduler: a thread
\* that can go on (it is not waiting for a held lock) is eventually run.
InitGuarded == demo \in {"safe", "meta"} /\ script = "none" /\ Objects

\* executor.submit(create_database): each worker thread makes one call,
\* Database().
SubmitSafe(t) == nCalls[t] = 0 /\ SafeCall(t)

SubmitMeta(t) == nCalls[t] = 0 /\ MetaCall(t, "Database")

NextGuarded ==
    \E t \in Threads :
        \/ SubmitSafe(t)
        \/ SubmitMeta(t)
        \/ Proceed(t)

SpecFair ==
    InitGuarded /\ [][NextGuarded]_vars /\ \A t \in Threads : WF_vars(Proceed(t))

InitSingleton == demo = "none" /\ script \in Scripts /\ Objects

SpecSingleton == InitSingleton /\ [][SingletonNext]_vars

InitPizza == demo = "none" /\ script = "none" /\ Objects

SpecPizza == InitPizza /\ [][PizzaNext]_vars

InitMixinInit == demo = "none" /\ script = "none" /\ Objects

SpecMixinInit == InitMixinInit /\ [][MixinInitNext]_vars

InitNested == demo = "meta" /\ script = "none" /\ Objects

SpecNested == InitNested /\ [][NestedNext]_vars

InitConverter == demo = "none" /\ script = "none" /\ Objects

SpecConverter == InitConverter /\ [][ConverterNext]_vars

\* ======================================================================
\* Properties of the threaded accessors (under Spec)
\* ======================================================================
Range(seq) == {seq[i] : i \in DOMAIN seq}

\* The instances the calls for class c have returned so far.
ReturnedOf(c) ==
    UNION {{e.inst : e \in {x \in Range(returned[t]) : x.cls = c}} : t \in Threads}

\* The calls that have returned or raised so far.
ReturnedCalls == SumOver([t \in Threads |-> Len(returned[t])], Threads)

RaisedCalls == SumOver(raised, Threads)

AllCallsFinished ==
    /\ \A t \in Threads : pc[t] = "idle"
    /\ SumOver(nCalls, Threads) = MaxCalls

\* The dict and the lock of the lock-guarded accessor that runs.
GuardedInstances == IF demo = "meta" THEN metaInstances ELSE instances

GuardedLock == IF demo = "meta" THEN metaLock ELSE lock

\* Thread t is inside the with block.
InWith(t) == pc[t] \in {"check2", "sleep", "construct", "store", "release", "unwind"}

\* Thread t has passed the inner check and has not published yet.
Building(t) == pc[t] \in {"sleep", "construct", "store"}

\* C1: safe_singleton. Under every interleaving the class is constructed at
\* most once, every call that returns gives the one published instance, a
\* call ends without a result only when its constructor raised, and when no
\* constructor raised and all calls are over the class was constructed
\* exactly once and every call returned that instance.
C1_SafeSingleInstance ==
    demo = "safe" =>
        /\ constructed[DecoratedClass] <= 1
        /\ Cardinality(ReturnedOf(DecoratedClass)) <= 1
        /\ ReturnedOf(DecoratedClass) # {} =>
               /\ constructed[DecoratedClass] = 1
               /\ DecoratedClass \in DOMAIN instances
               /\ ReturnedOf(DecoratedClass) = {instances[DecoratedClass]}
        /\ RaisedCalls + Cardinality({t \in Threads : pc[t] = "unwind"}) = failures
        /\ \A t \in Threads : Len(returned[t]) + raised[t] = nCalls[t]
        /\ (AllCallsFinished /\ failures = 0) =>
               /\ constructed[DecoratedClass] = 1
               /\ ReturnedCalls = MaxCalls

\* Two threads both found the class missing at the unlocked check (they
\* raced), no constructor raised, and both have returned.
C1_Witness ==
    /\ demo = "safe"
    /\ failures = 0
    /\ \E t1, t2 \in Threads :
           /\ t1 # t2
           /\ pc[t1] = "idle" /\ pc[t2] = "idle"
           /\ hist[t1].outerMiss /\ hist[t2].outerMiss
           /\ Len(returned[t1]) = 1 /\ Len(returned[t2]) = 1

\* C2: ThreadSafeSingletonMeta. For every class of the metaclass, under
\* every interleaving, the class is constructed at most once and all calls of
\* it that return give the same instance, the one kept in _instances.
C2_MetaSingleInstance ==
    demo = "meta" =>
        \A c \in MetaClasses :
            /\ constructed[c] <= 1
            /\ Cardinality(ReturnedOf(c)) <= 1
            /\ ReturnedOf(c) # {} =>
                   /\ constructed[c] = 1
                   /\ c \in DOMAIN metaInstances
                   /\ ReturnedOf(c) = {metaInstances[c]}

\* Two threads raced for the same class and both returned, and the other
\* class has an instance of its own.
C2_Witness ==
    /\ demo = "meta"
    /\ \E t1, t2 \in Threads :
           /\ t1 # t2
           /\ pc[t1] = "idle" /\ pc[t2] = "idle"
           /\ hist[t1].outerMiss /\ hist[t2].outerMiss
           /\ Len(returned[t1]) = 1 /\ Len(returned[t2]) = 1
           /\ returned[t1][1].cls = returned[t2][1].cls
    /\ DOMAIN metaInstances = MetaClasses

\* C3: unsafe_singleton. Several instances are possible (C3_Witness), and the
\* only way to them is the race: a call constructs only after it passed the
\* check, which it can do only when it began before any publication; nothing
\* ever takes a lock; and the calls return more than one instance only if the
\* class was constructed more than once.
C3_UnsafeRace ==
    demo = "unsafe" =>
        /\ \A t \in Threads :
               Building(t) => hist[t].outerMiss /\ ~hist[t].startPub
        /\ ~lock
        /\ Cardinality(ReturnedOf(DecoratedClass)) <= constructed[DecoratedClass]

\* Two threads passed the check before any publication, each constructed the
\* class, and their calls returned distinct instances.
C3_Witness ==
    /\ demo = "unsafe"
    /\ \E t1, t2 \in Threads :
           /\ t1 # t2
           /\ pc[t1] = "idle" /\ pc[t2] = "idle"
           /\ hist[t1].outerMiss /\ hist[t2].outerMiss
           /\ ~hist[t1].startPub /\ ~hist[t2].startPub
           /\ hist[t1].built /\ hist[t2].built
           /\ Len(returned[t1]) = 1 /\ Len(returned[t2]) = 1
           /\ returned[t1][1].inst # returned[t2][1].inst
    /\ constructed[DecoratedClass] >= 2

\* C4: a constructor that raises inside the lock-guarded accessors publishes
\* nothing: while the exception unwinds the dicts are as they were, with the
\* class missing; the step that ends the call releases the lock and leaves
\* the class missing, so that the next check finds it uninitialized.
C4_FailedConstruction ==
    [][\A t \in Threads :
          /\ (pc[t] = "construct" /\ pc'[t] = "unwind") =>
                 /\ instances' = instances
                 /\ metaInstances' = metaInstances
                 /\ cls[t] \notin DOMAIN GuardedInstances'
          /\ (pc[t] = "unwind" /\ pc'[t] # "unwind") =>
                 /\ pc'[t] = "idle"
                 /\ raised'[t] = raised[t] + 1
                 /\ instances' = instances
                 /\ metaInstances' = metaInstances
                 /\ cls[t] \notin DOMAIN GuardedInstances'
                 /\ ~lock' /\ ~metaLock']_vars

\* A constructor raised in a call of thread t, and a later call of the same
\* thread constructed the class and returned it.
C4_Witness ==
    /\ demo \in {"safe", "meta"}
    /\ failures = 1
    /\ ~GuardedLock
    /\ \E t \in Threads :
           /\ raised[t] = 1
           /\ pc[t] = "idle"
           /\ Len(returned[t]) = 1
           /\ hist[t].built
           /\ constructed[cls[t]] = 1

\* C5: double-checked locking. A call is at the lock, or inside the with
\* block, only if its unlocked check found the class missing; a call that
\* began after the publication never takes the lock; a thread that acquired
\* the lock after the publication constructs nothing; and at most one thread
\* is between the inner check and the publication, holding the lock.
C5_DoubleChecked ==
    demo \in {"safe", "meta"} =>
        /\ \A t \in Threads :
               /\ (pc[t] = "acquire" \/ InWith(t) \/ hist[t].tookLock)
                      => hist[t].outerMiss
               /\ hist[t].startPub =>
                      /\ ~hist[t].tookLock
                      /\ pc[t] # "acquire" /\ ~InWith(t)
               /\ hist[t].acqPub =>
                      /\ ~hist[t].built
                      /\ ~Building(t) /\ pc[t] # "unwind"
               /\ InWith(t) => GuardedLock
        /\ Cardinality({t \in Threads : pc[t] = "check2" \/ Building(t)}) <= 1

\* One thread acquired the lock after the publication and left the with
\* block without constructing, and another call began after the publication
\* and has returned.
C5_Witness ==
    /\ demo \in {"safe", "meta"}
    /\ \E t1, t2 \in Threads :
           /\ t1 # t2
           /\ hist[t1].acqPub /\ pc[t1] = "idle" /\ Len(returned[t1]) = 1
           /\ hist[t2].startPub /\ pc[t2] = "idle" /\ Len(returned[t2]) = 1

\* ======================================================================
\* Properties of the single-threaded singletons (under SpecSingleton)
\* ======================================================================
\* All the calls of accessor acc returned one object.
OneObject(acc) ==
    \A i, j \in DOMAIN refs[acc] : refs[acc][i] = refs[acc][j]

\* C6: for the __new__-based, the decorator-wrapped and the SingletonMeta
\* ConfigManager, every call returns the same object, and the value last
\* stored under "test" through the result of one call is what the result of
\* every call shows, the calls made after the store included.
C6_SequentialIdentity ==
    \A acc \in {NewCM, DecoCM, MetaCM} :
        /\ OneObject(acc)
        /\ \A w \in written[acc] : \A i \in DOMAIN refs[acc] :
               /\ "test" \in DOMAIN heap[refs[acc][i]].config
               /\ heap[refs[acc][i]].config["test"] = w.val

\* A value was stored through the result of the first call, and a call made
\* after the store returned an object that shows it.
C6_Witness ==
    \E acc \in {NewCM, DecoCM, MetaCM} : \E w \in written[acc] :
        /\ w.via = 1
        /\ Len(refs[acc]) > w.calls
        /\ heap[refs[acc][Len(refs[acc])]].config["test"] = w.val

\* C7: with the __new__-based ConfigManager, after k calls __init__ has run k
\* times, all on the one shared instance, and the instance was allocated and
\* _load_config ran once, on the first call, and never again.
C7_NewPitfall ==
    script = "01_new_pitfall" =>
        LET k == Len(refs[NewCM])
            once == IF k >= 1 THEN 1 ELSE 0
        IN  /\ initCount[NewCM] = k
            /\ allocCount[NewCM] = once
            /\ loadCount[NewCM] = once
            /\ Cardinality(DOMAIN heap) = once
            /\ OneObject(NewCM)
            /\ k >= 1 => newInstance = refs[NewCM][1]
            /\ k = 0 => newInstance = 0

\* Three calls: __init__ ran three times, the allocation once.
C7_Witness ==
    /\ script = "01_new_pitfall"
    /\ Len(refs[NewCM]) = MaxSeqCalls
    /\ initCount[NewCM] = MaxSeqCalls
    /\ allocCount[NewCM] = 1

\* C8: SingletonMeta with inheritance. Each class has one instance of its
\* own: all calls of a class return one object, of that class, and the
\* object of the base is not the object of the subclass; calling the
\* subclass first leaves the base without an instance.
C8_PerClassInstance ==
    script = "metaclass_example" =>
        /\ \A c \in SingletonMetaClasses :
               /\ OneObject(c)
               /\ allocCount[c] <= 1
               /\ initCount[c] = allocCount[c]
               /\ \A i \in DOMAIN refs[c] : heap[refs[c][i]].cls = c
               /\ (c \in DOMAIN smInstances) = (refs[c] # <<>>)
        /\ \A i \in DOMAIN refs[MetaCM], j \in DOMAIN refs[MetaDB] :
               refs[MetaCM][i] # refs[MetaDB][j]

\* The subclass was instantiated first, then the base; each was called
\* again and again.
C8_Witness ==
    /\ script = "metaclass_example"
    /\ Len(refs[MetaCM]) = MaxSeqCalls
    /\ Len(refs[MetaDB]) = MaxSeqCalls
    /\ refs[MetaDB][1] < refs[MetaCM][1]

\* The other order: the base first, then the subclass.
C8_WitnessBaseFirst ==
    /\ script = "metaclass_example"
    /\ Len(refs[MetaCM]) = MaxSeqCalls
    /\ Len(refs[MetaDB]) = MaxSeqCalls
    /\ refs[MetaCM][1] < refs[MetaDB][1]

\* C9: once decorated, Logger is bound to a plain function, and the class
\* statement of a subclass of it ends in one TypeError and binds no
\* FileLogger; with a SingletonMeta Logger the same statement raises nothing
\* and binds FileLogger to a class of that metaclass whose base is Logger.
C9_DecoratorSubclassing ==
    /\ "Logger" \in DOMAIN ns["decorator"] =>
           ns["decorator"]["Logger"].kind = "function"
    /\ "FileLogger" \notin DOMAIN ns["decorator"]
    /\ typeErrors["decorator"] = (IF tried["decorator"] THEN 1 ELSE 0)
    /\ "Logger" \in DOMAIN ns["metaclass"] =>
           ns["metaclass"]["Logger"] = ClassValue("Logger", "SingletonMeta", <<>>)
    /\ typeErrors["metaclass"] = 0
    /\ ("FileLogger" \in DOMAIN ns["metaclass"]) = tried["metaclass"]
    /\ tried["metaclass"] =>
           ns["metaclass"]["FileLogger"] =
               ClassValue("FileLogger", "SingletonMeta", <<"Logger">>)

\* Both demonstrations have run their class statement of FileLogger.
C9_Witness ==
    /\ tried["decorator"]
    /\ tried["metaclass"]
    /\ typeErrors["decorator"] = 1

\* ======================================================================
\* Properties of the pizzas (under SpecPizza)
\* ======================================================================
\* The toppings one call of method m adds to a pizza of kind.
ToppingsOf(kind, m) ==
    CASE m = "add_olives" -> <<"olives">>
      [] m = "add_cheese" -> <<"cheese">>
      [] m = "add_pepperoni" -> <<"pepperoni">>
      [] m = "prepare_pizza" ->
             IF kind = "DeluxePizza" THEN <<"olives", "cheese", "pepperoni">>
                                     ELSE <<"olives", "cheese">>

\* The toppings the calls of calls add, in call order.
RECURSIVE ToppingsAdded(_, _)
ToppingsAdded(kind, calls) ==
    IF calls = <<>> THEN <<>>
    ELSE ToppingsOf(kind, Head(calls)) \o ToppingsAdded(kind, Tail(calls))

\* C10: the toppings of every pizza are exactly the toppings its calls added,
\* in call order, whatever was called on the other pizzas; show_toppings
\* gives 'Toppings: ' and then that list, its elements separated by ', ',
\* or 'none' when it is empty; prepare_pizza alone gives olives, cheese,
\* pepperoni on a DeluxePizza and olives, cheese on a VeggiePizza.
C10_SharedToppings ==
    \A p \in DOMAIN pizzas :
        LET kind == pizzas[p].kind
            tops == pizzas[p].toppings
            shown == ShowToppings(tops)
        IN  /\ tops = ToppingsAdded(kind, log[p])
            /\ shown[1] = "Toppings: "
            /\ tops = <<>> => shown = <<"Toppings: ", "none">>
            /\ tops # <<>> =>
                   /\ Len(shown) = 2 * Len(tops)
                   /\ \A i \in DOMAIN tops : shown[2 * i] = tops[i]
                   /\ \A i \in 1..(Len(tops) - 1) : shown[2 * i + 1] = ", "
            /\ log[p] = <<"prepare_pizza">> =>
                   tops = (IF kind = "DeluxePizza"
                              THEN <<"olives", "cheese", "pepperoni">>
                              ELSE <<"olives", "cheese">>)

\* A DeluxePizza that was prepared and a VeggiePizza that got cheese and then
\* olives, by calls that alternated between the two.
C10_Witness ==
    \E p, q \in DOMAIN pizzas :
        /\ pizzas[p].kind = "DeluxePizza"
        /\ log[p] = <<"prepare_pizza">>
        /\ pizzas[q].kind = "VeggiePizza"
        /\ pizzas[q].toppings = <<"cheese", "olives">>

\* ======================================================================
\* Properties of the mixin constructors (under SpecMixinInit)
\* ======================================================================
\* How often the __init__ of class c was entered for the object.
InitRuns(object, c) ==
    Cardinality({i \in DOMAIN object.inits : object.inits[i] = c})

\* C11: constructing MyClass runs MixinA.__init__ exactly once and never
\* MixinB.__init__; constructing ClassC runs NameMixin.__init__ and then
\* TimestampMixin.__init__, each exactly once, and leaves name, timestamp and
\* c_value set to the arguments.
C11_MixinConstructors ==
    \A i \in DOMAIN created :
        LET object == created[i]
        IN  /\ object.cls = "MyClass" =>
                   /\ InitRuns(object, "MixinA") = 1
                   /\ InitRuns(object, "MixinB") = 0
                   /\ object.inits = <<"MyClass", "MixinA">>
            /\ object.cls = "ClassC" =>
                   /\ InitRuns(object, "NameMixin") = 1
                   /\ InitRuns(object, "TimestampMixin") = 1
                   /\ object.inits = <<"ClassC", "NameMixin", "TimestampMixin">>
                   /\ DOMAIN object.attrs = {"name", "timestamp", "c_value"}
                   /\ object.attrs["name"] = object.args[1]
                   /\ object.attrs["timestamp"] = object.args[2]
                   /\ object.attrs["c_value"] = object.args[3]

\* A MyClass object and the ClassC("Carol", 1234567890, 789) of the script
\* have both been constructed.
C11_Witness ==
    /\ \E i \in DOMAIN created : created[i].cls = "MyClass"
    /\ \E i \in DOMAIN created :
           /\ created[i].cls = "ClassC"
           /\ created[i].args = <<"Carol", 1234567890, 789>>

\* ======================================================================
\* Properties of the converters (under SpecConverter)
\* ======================================================================
\* The number a string of decimal digits stands for.
RECURSIVE DecimalValue(_)
DecimalValue(chars) ==
    IF chars = <<>> THEN 0
    ELSE LET d == CHOOSE k \in 0..9 : DigitChars[k + 1] = chars[Len(chars)]
         IN  10 * DecimalValue(SubSeq(chars, 1, Len(chars) - 1)) + d

ConversionFns == {"bytes_to_kb", "bytes_to_mb", "kb_to_bytes", "mb_to_bytes"}

SizeGetters == {"get_size_in_mb", "get_size_in_kb"}

\* C12: format_size of a non-negative n ends in ' bytes', after the decimal
\* digits of exactly n, when n < 1024; in ' KB', after n / 1024 to two
\* places, when 1024 <= n < 1048576; in ' MB', after n / 1048576 to two
\* places, when n >= 1048576. So 1024 gives '1.00 KB' and 1048576 gives
\* '1.00 MB'.
C12_FormatSizeUnits ==
    (last.fn = "format_size" /\ last.arg >= 0) =>
        LET n == last.arg
            text == last.outcome.value
            unit == text[Len(text)]
            number == SubSeq(text, 1, Len(text) - 1)
        IN  /\ last.outcome.raised = ""
            /\ unit \in {" bytes", " KB", " MB"}
            /\ unit = " bytes" <=> n < 1024
            /\ unit = " KB" <=> (1024 <= n /\ n < 1048576)
            /\ unit = " MB" <=> n >= 1048576
            /\ unit = " bytes" => DecimalValue(number) = n
            /\ unit = " KB" => number = Fixed2(Ratio(n, 1024))
            /\ unit = " MB" => number = Fixed2(Ratio(n, 1048576))
            /\ n = 500 => text = <<"5", "0", "0", " bytes">>
            /\ n = 1024 => text = <<"1", ".", "0", "0", " KB">>
            /\ n = 1048576 => text = <<"1", ".", "0", "0", " MB">>

\* format_size was called with the boundary 1024.
C12_Witness ==
    /\ last.fn = "format_size"
    /\ last.arg = 1024
    /\ last.outcome.value[Len(last.outcome.value)] = " KB"

\* C13: whichever name a conversion is reached through, its result is what
\* the mixin's and the static class's function both give for the argument;
\* kb_to_bytes and mb_to_bytes of a whole k are 1024 * k and 1048576 * k;
\* bytes_to_mb of 1048576 * k is k; and get_size_in_mb() / get_size_in_kb()
\* of a document is the static class's bytes_to_mb / bytes_to_kb of its
\* size_bytes.
C13_MixinStaticEquivalent ==
    /\ last.fn = "bytes_to_kb" =>
           /\ last.outcome = Returns(MixinBytesToKb(last.arg))
           /\ last.outcome = Returns(StaticBytesToKb(last.arg))
    /\ last.fn = "bytes_to_mb" =>
           /\ last.outcome = Returns(MixinBytesToMb(last.arg))
           /\ last.outcome = Returns(StaticBytesToMb(last.arg))
           /\ last.arg % 1048576 = 0 =>
                  last.outcome.value = [num |-> last.arg \div 1048576, den |-> 1]
    /\ last.fn = "kb_to_bytes" =>
           /\ last.outcome = Returns(MixinKbToBytes(last.arg))
           /\ last.outcome = Returns(StaticKbToBytes(last.arg))
           /\ last.arg.den = 1 => last.outcome.value = 1024 * last.arg.num
    /\ last.fn = "mb_to_bytes" =>
           /\ last.outcome = Returns(MixinMbToBytes(last.arg))
           /\ last.outcome = Returns(StaticMbToBytes(last.arg))
           /\ last.arg.den = 1 => last.outcome.value = 1048576 * last.arg.num
    /\ (last.fn = "get_size_in_mb" /\ "size_bytes" \in DOMAIN last.arg.attrs) =>
           last.outcome = Returns(StaticBytesToMb(last.arg.attrs["size_bytes"]))
    /\ (last.fn = "get_size_in_kb" /\ "size_bytes" \in DOMAIN last.arg.attrs) =>
           last.outcome = Returns(StaticBytesToKb(last.arg.attrs["size_bytes"]))

\* get_size_in_mb() of a PDFDocument of 2500000 bytes, the document of the
\* script, whose size is not a whole number of MB.
C13_Witness ==
    /\ last.fn = "get_size_in_mb"
    /\ last.arg.cls = "PDFDocument"
    /\ last.arg.attrs["size_bytes"] = 2500000
    /\ last.outcome.raised = ""
    /\ last.outcome.value.den # 1

\* C14: get_size_in_mb and get_size_in_kb of an instance that has no
\* size_bytes raise AttributeError and give no value; the static
\* conversions of the mixin, reached through the class or through an
\* instance, never raise, whatever attributes the instance has.
C14_RequiresHostState ==
    /\ (last.fn \in SizeGetters /\ "size_bytes" \notin DOMAIN last.arg.attrs) =>
           /\ last.outcome.raised = "AttributeError"
           /\ last.outcome = Raises("AttributeError")
    /\ (last.fn \in ConversionFns
            /\ last.owner \in {"DataConverterMixin", "instance"}) =>
           last.outcome.raised = ""

\* get_size_in_mb() was called on an Incomplete instance.
C14_Witness ==
    /\ last.fn = "get_size_in_mb"
    /\ last.arg.cls = "Incomplete"
    /\ doc.cls = "Incomplete"
    /\ last.outcome.raised = "AttributeError"

\* ======================================================================
\* Properties of the loggers (under SpecSingleton)
\* ======================================================================
\* The calls of class c in scope s, in call order.
CallsOf(s, c) ==
    SelectSeq(logCalls, LAMBDA e : e.call.scope = s /\ e.call.cls = c)

\* The state __init__ leaves behind when it is given args.
LoggerStateOf(c, args) ==
    IF c = "FileLogger"
       THEN Put(Put(EmptyDict, "name", <<"FileLogger(", args[1], ")">>),
                "filename", args[1])
       ELSE Put(EmptyDict, "name", IF Len(args) = 0 THEN <<"Logger">> ELSE args)

\* C15, as stated: whenever a class has been called, its __init__ ran on
\* the first call, and only then.
C15_FirstCallAlwaysConstructs ==
    \A s \in Scopes, c \in LoggerClasses :
        LET calls == CallsOf(s, c)
        IN  calls # <<>> =>
                /\ calls[1].built
                /\ \A i \in DOMAIN calls : calls[i].built => i = 1

\* C15: first call wins, among the calls the constructor accepts. Over any
\* sequence of calls of one class, __init__ completes at most once, in the
\* first call that does not raise; the calls before it raised TypeError for
\* their arguments and stored nothing; every call from then on returns that
\* one instance, whatever its arguments are (also arguments __init__ would
\* reject), and the instance keeps the state the constructing call gave it.
C15_FirstCallWins ==
    \A s \in Scopes, c \in LoggerClasses :
        LET calls == CallsOf(s, c)
        IN  \A i \in DOMAIN calls :
                /\ calls[i].built <=>
                       /\ calls[i].raised = ""
                       /\ \A j \in 1..(i - 1) : calls[j].raised # ""
                /\ calls[i].raised # "" =>
                       /\ calls[i].raised = "TypeError"
                       /\ calls[i].call.cls = "FileLogger"
                       /\ calls[i].call.args = <<>>
                       /\ \A j \in 1..i : calls[j].raised # ""
                /\ calls[i].raised = "" =>
                       \E k \in 1..i :
                           /\ calls[k].built
                           /\ \A j \in DOMAIN calls : calls[j].built => j = k
                           /\ calls[i].ref = calls[k].ref
                           /\ logInstances[s][c] = calls[k].ref
                           /\ logHeap[calls[k].ref].cls = c
                           /\ logHeap[calls[k].ref].inits = 1
                           /\ logHeap[calls[k].ref].attrs
                                  = LoggerStateOf(c, calls[k].call.args)

\* FileLogger("app.log") and then FileLogger("other.log") in the scope of
\* the metaclass: one instance, whose filename is "app.log".
C15_Witness ==
    LET calls == CallsOf("metaclass", "FileLogger")
    IN  /\ Len(calls) = 2
        /\ calls[1].call.args = <<"app.log">>
        /\ calls[2].call.args = <<"other.log">>
        /\ calls[1].ref = calls[2].ref
        /\ logHeap[calls[2].ref].attrs["filename"] = "app.log"

\* ======================================================================
\* Progress of the lock-guarded accessors (under SpecFair)
\* ======================================================================
\* While a call is in progress, some thread in a call can take its next step.
NoDeadlock ==
    (\E t \in Threads : pc[t] # "idle") => \E t \in Threads : ENABLED Proceed(t)

\* C16: under fair scheduling every call of the lock-guarded accessors that
\* is in progress eventually ends; it ends with an instance unless its
\* constructor raised; no reachable state is a deadlock; and the lock is
\* free whenever no call is in progress.
C16_Progress ==
    /\ [](demo \in {"safe", "meta"} =>
             /\ NoDeadlock
             /\ (\A t \in Threads : pc[t] = "idle") => ~GuardedLock
             /\ \A t \in Threads : Len(returned[t]) + raised[t] = nCalls[t]
             /\ RaisedCalls <= failures)
    /\ \A t \in Threads :
           (demo \in {"safe", "meta"} /\ pc[t] # "idle") ~> (pc[t] = "idle")

\* All the threads called at once, each found the class missing at the
\* unlocked check and queued for the lock, no constructor raised, and every
\* call has returned the instance.
C16_Witness ==
    /\ demo \in {"safe", "meta"}
    /\ failures = 0
    /\ ~GuardedLock
    /\ \A t \in Threads :
           /\ pc[t] = "idle"
           /\ hist[t].outerMiss /\ hist[t].tookLock
           /\ Len(returned[t]) = 1
    /\ \A t, u \in Threads : returned[t][1].cls = returned[u][1].cls

\* ======================================================================
\* The shared lock of ThreadSafeSingletonMeta (under SpecNested)
\* ======================================================================
\* Thread t is inside a first-time construction: between the inner check
\* and the store, or in a constructor that is waiting for a call it made.
InConstruction(t) == Building(t) \/ outer[t] # ""

\* The constructor thread t runs has called a class that is not yet
\* constructed, and the call is waiting for the lock.
SelfBlocked(t) == outer[t] # "" /\ pc[t] = "acquire"

\* C17: one lock guards all the classes of the metaclass: at most one thread
\* is inside a first-time construction, of whatever class, and it holds the
\* lock. A first-time construction whose constructor makes the first call of
\* another class of the metaclass waits for the lock its own thread holds:
\* from then on that thread stays where it is, the lock stays held, neither
\* class is ever published, and no thread waiting for the lock ever gets it.
\* Such a constructor completes only when the class it calls was constructed
\* before.
C17_SharedLock ==
    /\ [](/\ Cardinality({t \in Threads : InConstruction(t)}) <= 1
          /\ \A t \in Threads : InConstruction(t) => metaLock
          /\ \A t \in Threads :
                 SelfBlocked(t) =>
                     /\ metaLock
                     /\ outer[t] \notin DOMAIN metaInstances
                     /\ cls[t] \notin DOMAIN metaInstances
                     /\ \A u \in Threads : ~ENABLED MetaAcquire(u)
          /\ \A c \in NestingClasses :
                 constructed[c] > 0 => CalledByCtor(c) \in DOMAIN metaInstances)
    /\ [][\A t \in Threads :
              (outer[t] # "" /\ pc[t] = "check1" /\ pc'[t] # "check1"
                   /\ cls[t] \notin DOMAIN metaInstances) => SelfBlocked(t)']_vars
    /\ [][\A t \in Threads :
              SelfBlocked(t) =>
                  /\ SelfBlocked(t)'
                  /\ pc'[t] = pc[t] /\ cls'[t] = cls[t] /\ outer'[t] = outer[t]
                  /\ metaLock'
                  /\ metaInstances' = metaInstances
                  /\ \A u \in Threads : pc[u] = "acquire" => pc'[u] = "acquire"
                  /\ returned' = returned]_vars

\* The constructor of Service has called Database for the first time and
\* waits for the lock its thread holds, and another thread, which wants to
\* construct a class for the first time, waits for the lock behind it.
C17_Witness ==
    \E t, u \in Threads :
        /\ t # u
        /\ SelfBlocked(t)
        /\ outer[t] = "Service" /\ cls[t] = "Database"
        /\ outer[u] = "" /\ pc[u] = "acquire"
        /\ metaInstances = EmptyDict

\* ======================================================================
\* The damage of the unguarded race (under Spec)
\* ======================================================================
\* An instance of the decorated class has been published.
Published == DecoratedClass \in DOMAIN instances

\* The calls that have passed the check so far: those whose constructor has
\* completed or raised, and those that are about to run it.
PassedCheck ==
    constructed[DecoratedClass] + failures
        + Cardinality({t \in Threads : pc[t] \in {"sleep", "construct"}})

\* Thread t is in a racing call: it passed the check and has not stored yet.
Racing(t) == pc[t] \in {"sleep", "construct", "store"}

\* C18: unsafe_singleton. A call that began after a publication constructs
\* nothing; no call passes the check once an instance is published, so the
\* constructions are at most the calls that passed it before the first
\* publication; a call returns the instance that is in the dict when it
\* reads it at the return, whoever built it; and once an instance is
\* published and no racing call is left, the dict never changes again, so
\* every later call returns that last-published instance.
C18_BoundedDamage ==
    /\ [](demo = "unsafe" =>
             /\ \A t \in Threads :
                    hist[t].startPub => ~hist[t].built /\ ~Racing(t)
             /\ constructed[DecoratedClass] <= PassedCheck
             /\ (\E t \in Threads : pc[t] = "return") => Published)
    /\ [][demo = "unsafe" =>
             /\ Published => (Published' /\ PassedCheck' = PassedCheck)
             /\ \A t \in Threads :
                    (pc[t] = "return" /\ pc'[t] = "idle") =>
                        returned'[t] = Append(returned[t],
                                              [cls |-> DecoratedClass,
                                               inst |-> instances[DecoratedClass]])
             /\ (Published /\ \A t \in Threads : ~Racing(t)) =>
                    /\ instances' = instances
                    /\ \A t \in Threads : ~Racing(t)'
                    /\ constructed' = constructed]_vars

\* Two calls raced and both constructed; the first to store returned the
\* object the other one built; a third call, begun after the publication,
\* constructed nothing and returned that same last-published instance.
C18_Witness ==
    /\ demo = "unsafe"
    /\ constructed[DecoratedClass] = 2
    /\ Published
    /\ \E t1, t2, t3 \in Threads :
           /\ t1 # t2 /\ t1 # t3 /\ t2 # t3
           /\ pc[t1] = "idle" /\ pc[t2] = "idle" /\ pc[t3] = "idle"
           /\ hist[t1].built /\ hist[t2].built
           /\ hist[t3].startPub /\ ~hist[t3].built
           /\ Len(returned[t1]) = 1 /\ Len(returned[t2]) = 1
           /\ Len(returned[t3]) = 1
           /\ instances[DecoratedClass] = obj[t2]
           /\ returned[t1][1].inst = obj[t2]
           /\ returned[t1][1].inst # obj[t1]
           /\ returned[t3][1].inst = obj[t2]

====
